---- MODULE Spec2Model ----
(***************************************************************************)
(* State-machine model of the agent-verify scheduler                       *)
(* (src/src/agent_verify/harness.py) with its conversation context,        *)
(* recovery strategies, verifiers and event log.                           *)
(*                                                                         *)
(* Python objects that are shared by reference (Context, TokenUsage, the   *)
(* tool-call list) live in heaps: a sequence indexed by object id.  A      *)
(* field holding such an object holds its id, so aliasing created by       *)
(* `new_context.token_usage = context.token_usage` is aliasing here too.   *)
(***************************************************************************)
EXTENDS Integers, Sequences, FiniteSets, TLC

VARIABLES
    config,      \* HarnessConfig of this run
    pc,          \* position of the (single-threaded) scheduler
    frames,      \* call stack of _agent_loop invocations
    contexts,    \* heap of Context objects
    usages,      \* heap of TokenUsage objects
    tool_lists,  \* heap of tool_calls lists
    events,      \* ExperimentLogger._events
    result,      \* the TaskResult returned by AgentHarness.run
    error,       \* the exception in flight ("" when none)
    now,         \* time.time()
    transport,   \* the model transport as the run's environment: calls and usage served
    tools,       \* the tool set as the run's environment: calls made and calls that failed
    verification, \* the last VerificationResult a verifier returned, with the gate's branch
    task_result, \* what the batch runner records for the task
    call,        \* a function of the program called on its own: its inputs and what it returned
    batch        \* the batch runner's trial: its tasks, workers, directories and results

vars == <<config, pc, frames, contexts, usages, tool_lists, events, result, error, now,
          transport, tools, verification, task_result, call, batch>>

(***************************************************************************)
(* Bounds of the model                                                     *)
(***************************************************************************)
MaxIterations == 3
MaxRecoveryAttempts == 2
MaxToolUses == 2
MaxClock == 1
MaxCommandLen == 4
MaxTextLen == 3
MaxTasks == 2
MaxMessages == 4
MaxSections == 2

(***************************************************************************)
(* config.py                                                               *)
(***************************************************************************)
VerificationMethod == {"none", "self_review", "test_execution"}
VerificationGranularity == {"task_end_only", "per_feature", "per_step"}
RecoveryStrategyType == {"retry_in_context", "compact_and_retry", "fresh_restart"}
TokenBudgets == {5}
TimeoutSeconds == {1}

HarnessConfig ==
    [ model : {"claude-sonnet-4-6"},
      verification_method : VerificationMethod,
      verification_granularity : VerificationGranularity,
      recovery_strategy : RecoveryStrategyType,
      max_iterations : 0..MaxIterations,
      max_recovery_attempts : 0..MaxRecoveryAttempts,
      max_tokens_budget : TokenBudgets,
      timeout_seconds : TimeoutSeconds ]

(***************************************************************************)
(* llm/base.py: responses of the transport                                 *)
(***************************************************************************)
\* price per token in units of 1e-8 USD (the table is per million tokens)
PRICING ==
    [ m \in {"claude-sonnet-4-6", "claude-sonnet-4-20250514", "claude-opus-4-6"} |->
        IF m = "claude-opus-4-6"
        THEN [input |-> 500, output |-> 2500, cache_write |-> 625, cache_read |-> 50]
        ELSE [input |-> 300, output |-> 1500, cache_write |-> 375, cache_read |-> 30] ]

cost_usd(r) ==
    IF r.model \notin DOMAIN PRICING THEN 0
    ELSE r.input_tokens * PRICING[r.model].input
       + r.output_tokens * PRICING[r.model].output
       + r.cache_creation_input_tokens * PRICING[r.model].cache_write
       + r.cache_read_input_tokens * PRICING[r.model].cache_read

\* A text block; `text` is the set of tokens the string contains, so that
\* Python's `marker in text` is membership
TextBlock(t) == [type |-> "text", text |-> t]
ToolUseBlock(i) == [type |-> "tool_use", id |-> i]

RECURSIVE SelectSeq2(_, _)
SelectSeq2(s, ty) ==
    IF s = <<>> THEN <<>>
    ELSE IF Head(s).type = ty THEN <<Head(s)>> \o SelectSeq2(Tail(s), ty)
         ELSE SelectSeq2(Tail(s), ty)

tool_uses(r) == SelectSeq2(r.content, "tool_use")
has_tool_use(r) == Len(tool_uses(r)) > 0
text_content(r) ==
    UNION { r.content[i].text : i \in { j \in 1..Len(r.content) : r.content[j].type = "text" } }

TASK_COMPLETE_MARKER == "TASK_COMPLETE"

\* The responses the transport may serve for its n-th call: a turn
\* requesting 1..MaxToolUses tools, or a text turn with or without the marker.
\* Tool-use ids are unique per response, as provider ids are.
LLMResponses(n) ==
    { [ content |-> [i \in 1..k |-> ToolUseBlock(10 * n + i)],
        stop_reason |-> "tool_use",
        input_tokens |-> 2, output_tokens |-> 1,
        cache_creation_input_tokens |-> 1, cache_read_input_tokens |-> 0,
        model |-> config.model ] : k \in 1..MaxToolUses }
    \cup
    { [ content |-> <<TextBlock(ts[1])>>,
        stop_reason |-> ts[2],
        input_tokens |-> 1, output_tokens |-> 1,
        cache_creation_input_tokens |-> 0, cache_read_input_tokens |-> 1,
        model |-> config.model ] :
        ts \in { <<{"TASK_COMPLETE"}, "end_turn">>,
                 <<{"thinking"}, "end_turn">>,
                 <<{"thinking"}, "max_tokens">> } }

(***************************************************************************)
(* context.py                                                              *)
(***************************************************************************)
TokenUsage ==
    [ input_tokens |-> 0, output_tokens |-> 0,
      cache_creation_input_tokens |-> 0, cache_read_input_tokens |-> 0,
      total_cost_usd |-> 0 ]

TokenUsage_total(u) == u.input_tokens + u.output_tokens

TokenUsage_add(u, i, o, cc, cr, cost) ==
    [ input_tokens |-> u.input_tokens + i,
      output_tokens |-> u.output_tokens + o,
      cache_creation_input_tokens |-> u.cache_creation_input_tokens + cc,
      cache_read_input_tokens |-> u.cache_read_input_tokens + cr,
      total_cost_usd |-> u.total_cost_usd + cost ]

\* Context(start_time=t): token_usage and tool_calls are ids of fresh objects
Context(t, usage_id, list_id) ==
    [ messages |-> <<>>,
      tool_calls |-> list_id,
      token_usage |-> usage_id,
      start_time |-> t,
      iteration_count |-> 0,
      verification_count |-> 0,
      recovery_count |-> 0,
      is_complete |-> FALSE,
      completion_reason |-> "" ]

\* a string content is kept as one text block
add_user_message(c, text) ==
    [c EXCEPT !.messages = Append(@, [role |-> "user", content |-> <<TextBlock(text)>>])]

add_assistant_message(c, content) ==
    [c EXCEPT !.messages = Append(@, [role |-> "assistant", content |-> content])]

\* variant: the block carries no id of the tool use it answers
add_tool_result_WithoutId(c, tool_use_id, content) ==
    [c EXCEPT !.messages = Append(@,
        [ role |-> "user",
          content |-> << [type |-> "tool_result", tool_use_id |-> 0,
                          content |-> content] >> ])]

add_tool_result(c, tool_use_id, content) ==
    [c EXCEPT !.messages = Append(@,
        [ role |-> "user",
          content |-> << [type |-> "tool_result", tool_use_id |-> tool_use_id,
                          content |-> content] >> ])]

elapsed_seconds(c, t) == t - c.start_time

(***************************************************************************)
(* benchmark/base.py: TaskResult                                           *)
(***************************************************************************)
\* the fields the dataclass declares, with their defaults
TaskResultDefaults ==
    [ input_tokens |-> 0, output_tokens |-> 0, wall_clock_seconds |-> 0,
      tool_call_count |-> 0, verification_count |-> 0, recovery_count |-> 0,
      iterations |-> 0, completion_reason |-> "", error |-> "" ]

TaskResultFields == {"task_id", "resolved", "metadata"} \cup DOMAIN TaskResultDefaults

\* TaskResult(**kw): the generated __init__ raises TypeError on a keyword
\* that is not a field
TaskResultAccepts(kw) == DOMAIN kw \subseteq TaskResultFields
TaskResult(kw) == kw @@ TaskResultDefaults

NoResult == [completion_reason |-> "<no result>"]

(***************************************************************************)
(* logging/logger.py                                                       *)
(***************************************************************************)
log_run_start(ev) == Append(ev, [event |-> "run_start"])
log_llm_call(ev, iteration, has_tool_use_) ==
    Append(ev, [event |-> "llm_call", iteration |-> iteration, has_tool_use |-> has_tool_use_])
log_tool_call(ev) == Append(ev, [event |-> "tool_call"])
log_verification(ev, passed) == Append(ev, [event |-> "verification", passed |-> passed])
log_recovery(ev, attempt) == Append(ev, [event |-> "recovery", attempt |-> attempt])
\* variant: run_end is not written
log_run_end_NotWritten(ev, r) == ev

log_run_end(ev, r) ==
    Append(ev, [event |-> "run_end", resolved |-> r.resolved,
                completion_reason |-> r.completion_reason])

(***************************************************************************)
(* recovery/retry.py, recovery/fresh.py, recovery/compact.py               *)
(***************************************************************************)
\* variant: R1 forgets to count the recovery
RetryInContext_recover_NotCounted(c, message) ==
    [ add_user_message(c, {"VERIFICATION FAILED", message}) EXCEPT !.is_complete = FALSE ]

\* variant: the feedback of R1 leaves out the verifier's message
RetryInContext_recover_WithoutMessage(c, message) ==
    [ add_user_message(c, {"VERIFICATION FAILED"})
        EXCEPT !.recovery_count = @ + 1, !.is_complete = FALSE ]

\* R1: the same context object, mutated
RetryInContext_recover(c, message) ==
    [ add_user_message(c, {"VERIFICATION FAILED", message})
        EXCEPT !.recovery_count = @ + 1, !.is_complete = FALSE ]

\* variant: R3 does not carry the iteration count over
FreshRestart_recover_IterationsReset(c, message, usage_id, list_id) ==
    add_user_message(
        [ Context(c.start_time, usage_id, list_id)
            EXCEPT !.token_usage = c.token_usage,
                   !.tool_calls = c.tool_calls,
                   !.verification_count = c.verification_count,
                   !.recovery_count = c.recovery_count + 1 ],
        {"task.description", "Previous Attempt Result", message})

\* R3: a new Context (fresh ids usage_id, list_id from its constructor) whose
\* usage and tool-call list are then rebound to the old context's objects
FreshRestart_recover(c, message, usage_id, list_id) ==
    add_user_message(
        [ Context(c.start_time, usage_id, list_id)
            EXCEPT !.token_usage = c.token_usage,
                   !.tool_calls = c.tool_calls,
                   !.iteration_count = c.iteration_count,
                   !.verification_count = c.verification_count,
                   !.recovery_count = c.recovery_count + 1 ],
        {"task.description", "Previous Attempt Result", message})

\* variant: R2 without a client leaves the terminal flag as it finds it
CompactAndRetry_recover_NoClient_FlagKept(c, message) ==
    [ add_user_message(c, {"VERIFICATION FAILED", message})
        EXCEPT !.recovery_count = @ + 1 ]

\* R2 when self._llm_client is None: the input context, mutated
CompactAndRetry_recover_NoClient(c, message) ==
    [ add_user_message(c, {"VERIFICATION FAILED", message})
        EXCEPT !.recovery_count = @ + 1, !.is_complete = FALSE ]

\* R2 with a transport: the usage object after the summary call is accounted
\* (add is called with the two token counts only)
CompactAndRetry_usage(u, response) ==
    TokenUsage_add(u, response.input_tokens, response.output_tokens, 0, 0, 0)

\* variant: R2 starts the compacted context with its own empty tool-call list
CompactAndRetry_recover_OwnToolCalls(c, message, summary, usage_id, list_id) ==
    add_user_message(
        [ Context(c.start_time, usage_id, list_id)
            EXCEPT !.token_usage = c.token_usage,
                   !.iteration_count = c.iteration_count,
                   !.verification_count = c.verification_count,
                   !.recovery_count = c.recovery_count + 1 ],
        {"Context Summary", summary, message, "task.description"})

\* R2: the compacted context
CompactAndRetry_recover(c, message, summary, usage_id, list_id) ==
    add_user_message(
        [ Context(c.start_time, usage_id, list_id)
            EXCEPT !.token_usage = c.token_usage,
                   !.tool_calls = c.tool_calls,
                   !.iteration_count = c.iteration_count,
                   !.verification_count = c.verification_count,
                   !.recovery_count = c.recovery_count + 1 ],
        {"Context Summary", summary, message, "task.description"})

(***************************************************************************)
(* verification/*.py: what a verifier call can do                          *)
(***************************************************************************)
\* V0 always passes; V2 runs the test command and turns every failure into
\* passed = False; V1 asks the transport, which may raise
VerifierOutcomes(method) ==
    CASE method = "none" -> {"passed"}
      [] method = "test_execution" -> {"passed", "failed"}
      [] method = "self_review" -> {"passed", "failed", "raise"}

UsesTransport(method) == method = "self_review"

\* every member of the VerificationMethod enum
AllVerificationMethods ==
    {"none", "self_review", "test_execution", "spec_comparison", "e2e"}

\* what a call of verify depends on: the task's commands, the llm_client
\* argument, what the subprocess does and what the reviewing model answers
\* (a text is the set of its tokens, the empty text the empty set)
ReviewTexts == { {"VERIFICATION_PASSED"}, {"VERIFICATION_FAILED", "reason"}, {} }

VerifierInputs ==
    [ test_command : {"", "pytest"},
      e2e_command : {"", "playwright"},
      llm_client : {"None", "client"},
      subprocess : {"exit 0", "exit 1", "TimeoutExpired", "OSError"},
      transport : {"answers", "raises"},
      review : ReviewTexts ]

VerificationResult(passed, message) ==
    [raised |-> FALSE, passed |-> passed, message |-> message]

VerifierRaised == [raised |-> TRUE, passed |-> FALSE, message |-> {}]

NoVerification_verify(in) ==
    VerificationResult(TRUE, {"No verification performed (V0 baseline)"})

SelfReviewVerifier_verify(in) ==
    IF in.llm_client = "None"
    THEN VerificationResult(FALSE, {"Self-review requires an LLM client"})
    ELSE IF in.transport = "raises" THEN VerifierRaised
    ELSE VerificationResult("VERIFICATION_PASSED" \in in.review, in.review)

SpecComparisonVerifier_verify(in) ==
    IF in.llm_client = "None"
    THEN VerificationResult(FALSE, {"Spec comparison requires an LLM client"})
    ELSE IF in.transport = "raises" THEN VerifierRaised
    ELSE VerificationResult("VERIFICATION_PASSED" \in in.review, in.review)

\* variant: a task without a test command counts as having nothing to fail
TestExecutionVerifier_verify_NoCommandPasses(in) ==
    IF in.test_command = ""
    THEN VerificationResult(TRUE, {"No test command specified for this task"})
    ELSE CASE in.subprocess = "exit 0" -> VerificationResult(TRUE, {"Tests passed", "exit code"})
           [] in.subprocess = "exit 1" -> VerificationResult(FALSE, {"Tests failed", "exit code"})
           [] in.subprocess = "TimeoutExpired" -> VerificationResult(FALSE, {"Tests timed out"})
           [] in.subprocess = "OSError" -> VerificationResult(FALSE, {"Error running tests"})

TestExecutionVerifier_verify(in) ==
    IF in.test_command = ""
    THEN VerificationResult(FALSE, {"No test command specified for this task"})
    ELSE CASE in.subprocess = "exit 0" -> VerificationResult(TRUE, {"Tests passed", "exit code"})
           [] in.subprocess = "exit 1" -> VerificationResult(FALSE, {"Tests failed", "exit code"})
           [] in.subprocess = "TimeoutExpired" -> VerificationResult(FALSE, {"Tests timed out"})
           [] in.subprocess = "OSError" -> VerificationResult(FALSE, {"Error running tests"})

E2EVerifier_verify(in) ==
    IF in.e2e_command = ""
    THEN VerificationResult(FALSE, {"No E2E verification command specified for this task"})
    ELSE CASE in.subprocess = "exit 0" -> VerificationResult(TRUE, {"E2E verification passed"})
           [] in.subprocess = "exit 1" -> VerificationResult(FALSE, {"E2E verification failed"})
           [] in.subprocess = "TimeoutExpired" ->
                VerificationResult(FALSE, {"E2E verification timed out"})
           [] in.subprocess = "OSError" -> VerificationResult(FALSE, {"E2E verification error"})

\* create_verifier(method).verify(context, task, llm_client)
Verifier_verify(method, in) ==
    CASE method = "none" -> NoVerification_verify(in)
      [] method = "self_review" -> SelfReviewVerifier_verify(in)
      [] method = "test_execution" -> TestExecutionVerifier_verify(in)
      [] method = "spec_comparison" -> SpecComparisonVerifier_verify(in)
      [] method = "e2e" -> E2EVerifier_verify(in)

NoVerdict == [passed |-> FALSE, message |-> {}, branch |-> ""]

VerifierMessage(method, outcome) ==
    CASE method = "none" -> "No verification performed"
      [] method = "test_execution" -> "Tests failed"
      [] method = "self_review" -> "VERIFICATION_FAILED: reason"

(***************************************************************************)
(* harness.py: AgentHarness                                                *)
(***************************************************************************)
Top == frames[Len(frames)]
CurrentId == Top.context
Current == contexts[CurrentId]

Frame(context_id, recovery_attempts) ==
    [context |-> context_id, recovery_attempts |-> recovery_attempts, tool_uses |-> <<>>]

\* an exception leaves every _agent_loop frame and reaches run's handler
Raise(e) ==
    /\ error' = e
    /\ frames' = <<>>
    /\ pc' = "except"

\* the transport before the run: its calls, the totals of what the
\* scheduler's generations were billed, and the totals of what the calls made
\* by a verifier or by R2 were billed
NoTraffic ==
    [ calls |-> 0, failures |-> 0, generations |-> 0,
      input_tokens |-> 0, output_tokens |-> 0, cost_usd |-> 0,
      side_input_tokens |-> 0, side_output_tokens |-> 0, side_cost_usd |-> 0 ]

\* the transport answered a call of a verifier or of R2
Called(t) == [t EXCEPT !.calls = @ + 1]

\* the transport answered such a call with response r, and billed it
Billed(t, r) ==
    [ Called(t) EXCEPT !.side_input_tokens = @ + r.input_tokens,
                       !.side_output_tokens = @ + r.output_tokens,
                       !.side_cost_usd = @ + cost_usd(r) ]

\* the transport raised on a call
CallFailed(t) == [t EXCEPT !.calls = @ + 1, !.failures = @ + 1]

\* the transport served a generation of the scheduler: the call, and the
\* totals of what the scheduler's generations were billed
Served(t, r) ==
    [ t EXCEPT !.calls = @ + 1,
               !.generations = @ + 1,
               !.input_tokens = @ + r.input_tokens,
               !.output_tokens = @ + r.output_tokens,
               !.cost_usd = @ + cost_usd(r) ]

\* run(), up to the call of _agent_loop
RunStart ==
    /\ pc = "start"
    /\ events' = log_run_start(events)
    /\ usages' = Append(usages, TokenUsage)
    /\ tool_lists' = Append(tool_lists, <<>>)
    /\ contexts' = Append(contexts,
            add_user_message(Context(now, Len(usages) + 1, Len(tool_lists) + 1),
                             {"task.description"}))
    /\ frames' = <<Frame(Len(contexts) + 1, 0)>>
    /\ pc' = "guard"
    /\ UNCHANGED <<config, tools, verification, result, error, now, transport, task_result, call, batch>>

\* variant: the token budget is tested before the iteration count
GuardReason_TokenBudgetFirst(c, u, t) ==
    IF TokenUsage_total(u) >= config.max_tokens_budget THEN "token_budget"
    ELSE IF c.iteration_count >= config.max_iterations THEN "max_iterations"
    ELSE IF elapsed_seconds(c, t) >= config.timeout_seconds THEN "timeout"
    ELSE ""

\* the three guards at the head of the loop, in the order of the code: the
\* terminal reason, or "" when the loop goes on to generate
GuardReason(c, u, t) ==
    IF c.iteration_count >= config.max_iterations THEN "max_iterations"
    ELSE IF TokenUsage_total(u) >= config.max_tokens_budget THEN "token_budget"
    ELSE IF elapsed_seconds(c, t) >= config.timeout_seconds THEN "timeout"
    ELSE ""

\* `while not context.is_complete` and the guards; the clock is read here
Guard ==
    /\ pc = "guard"
    /\ \E t \in now..(IF now < MaxClock THEN now + 1 ELSE now) :
        LET reason == GuardReason(Current, usages[Current.token_usage], t) IN
        /\ now' = t
        /\ IF Current.is_complete
           THEN pc' = "build" /\ UNCHANGED contexts
           ELSE IF reason # ""
           THEN /\ contexts' = [contexts EXCEPT ![CurrentId] =
                                  [@ EXCEPT !.is_complete = TRUE,
                                            !.completion_reason = reason]]
                /\ pc' = "build"
           ELSE pc' = "generate" /\ UNCHANGED contexts
    /\ UNCHANGED <<config, tools, verification, frames, usages, tool_lists, events, result, error, transport, task_result, call, batch>>

\* the context after a response without tool use
NoToolBranch(c, response) ==
    IF TASK_COMPLETE_MARKER \in text_content(response)
    THEN [c EXCEPT !.is_complete = TRUE, !.completion_reason = "agent_declared"]
    ELSE IF response.stop_reason = "end_turn"
    THEN add_user_message(c, {"Please continue working on the task", "TASK_COMPLETE"})
    ELSE c

\* generate, account, log, append the assistant message and branch
Generate ==
    /\ pc = "generate"
    /\ \E response \in LLMResponses(transport.calls + 1) \cup {NoResult} :
        IF response = NoResult
        THEN /\ Raise("transport error")
             /\ transport' = CallFailed(transport)
             /\ UNCHANGED <<contexts, usages, events>>
        ELSE LET c1 == add_assistant_message(
                          [Current EXCEPT !.iteration_count = @ + 1], response.content)
             IN
             /\ transport' = Served(transport, response)
             /\ usages' = [usages EXCEPT ![Current.token_usage] =
                    TokenUsage_add(@, response.input_tokens, response.output_tokens,
                                   response.cache_creation_input_tokens,
                                   response.cache_read_input_tokens, cost_usd(response))]
             /\ events' = log_llm_call(events, c1.iteration_count, has_tool_use(response))
             /\ error' = error
             /\ IF has_tool_use(response)
                THEN /\ contexts' = [contexts EXCEPT ![CurrentId] = c1]
                     /\ frames' = [frames EXCEPT ![Len(frames)].tool_uses = tool_uses(response)]
                     /\ pc' = "tools"
                ELSE /\ contexts' = [contexts EXCEPT ![CurrentId] = NoToolBranch(c1, response)]
                     /\ frames' = frames
                     /\ pc' = IF TASK_COMPLETE_MARKER \in text_content(response)
                              THEN "verify" ELSE "guard"
    /\ UNCHANGED <<config, tools, verification, tool_lists, result, now, task_result, call, batch>>

\* where the loop goes on after a step that did not end it: the next tool use
\* of the turn, or the head of the loop
Continue(remaining) == IF remaining # <<>> THEN "tools" ELSE "guard"

\* what a call of ToolSet.execute can do: return the tool's output, return
\* the tool's own "Error..." string (file not found, shell timeout, exception
\* inside the tool), or raise (unknown tool name, wrong or missing arguments)
ToolOutcomes == {"ok", "returns_error", "raises"}

\* ToolSet.execute; a string is the sequence of its parts, so that "begins
\* with" is Head
ToolSet_execute(outcome) ==
    CASE outcome = "ok" -> [raised |-> FALSE, value |-> <<"output">>]
      [] outcome = "returns_error" -> [raised |-> FALSE, value |-> <<"Error", "detail">>]
      [] outcome = "raises" -> [raised |-> TRUE, value |-> <<"detail">>]

\* variant: _execute_tool without its try / except
ExecuteToolResult_Uncaught(executed) == executed

\* _execute_tool: an exception of the call becomes the string f"Error: {e}"
ExecuteToolResult(executed) ==
    IF executed.raised
    THEN [raised |-> FALSE, value |-> <<"Error">> \o executed.value]
    ELSE executed

\* the tool set after a call
ToolCalled(t, outcome) ==
    [ calls |-> t.calls + 1,
      failures |-> t.failures + (IF outcome = "ok" THEN 0 ELSE 1) ]

\* variant: every granularity but task_end_only verifies after a tool call
VerifiesAfterTool_AllButTaskEnd(granularity) == granularity # "task_end_only"

\* the granularity test of the loop: only per_step verifies after a tool call
VerifiesAfterTool(granularity) == granularity = "per_step"

\* _execute_tool for the next tool use of the turn, its tool_result, and where
\* the loop goes next under a granularity
ExecuteToolUnder(granularity) ==
    /\ pc = "tools"
    /\ Top.tool_uses # <<>>
    /\ \E outcome \in ToolOutcomes :
        LET tool_use == Head(Top.tool_uses)
            executed == ExecuteToolResult(ToolSet_execute(outcome))
            tool_result == executed.value
        IN
        /\ tools' = ToolCalled(tools, outcome)
        /\ IF executed.raised
           THEN /\ Raise("tool error")
                /\ UNCHANGED <<tool_lists, events, contexts>>
           ELSE /\ tool_lists' = [tool_lists EXCEPT ![Current.tool_calls] =
                        Append(@, [tool_use_id |-> tool_use.id, tool_result |-> tool_result])]
                /\ events' = log_tool_call(events)
                /\ contexts' = [contexts EXCEPT ![CurrentId] =
                        add_tool_result(@, tool_use.id, tool_result)]
                /\ frames' = [frames EXCEPT ![Len(frames)].tool_uses = Tail(@)]
                /\ pc' = IF VerifiesAfterTool(granularity)
                         THEN "verify" ELSE Continue(Tail(Top.tool_uses))
                /\ error' = error
    /\ UNCHANGED <<config, verification, usages, result, now, transport, task_result, call, batch>>

\* the tool step of a run, under the run's configured granularity
ExecuteTool == ExecuteToolUnder(config.verification_granularity)

\* the response to the review call of V1
ReviewResponse(passed) ==
    [ content |-> <<TextBlock(IF passed THEN {"VERIFICATION_PASSED"}
                              ELSE {"VERIFICATION_FAILED", "reason"})>>,
      stop_reason |-> "end_turn",
      input_tokens |-> 1, output_tokens |-> 1,
      cache_creation_input_tokens |-> 0, cache_read_input_tokens |-> 0,
      model |-> config.model ]

\* the response of R2's summary call
SummaryResponse ==
    [ content |-> <<TextBlock({"summary"})>>, stop_reason |-> "end_turn",
      input_tokens |-> 1, output_tokens |-> 1,
      cache_creation_input_tokens |-> 0, cache_read_input_tokens |-> 0,
      model |-> config.model ]

\* what the call of self.recovery.recover can do: R1 and R3 return, R2 calls
\* the transport first, which may raise
RecoverOutcomes(strategy) ==
    IF strategy = "compact_and_retry" THEN {"return", "raise"} ELSE {"return"}

\* variant: the loop is ended without a reason of its own
EndWith_ReasonKept(c, reason) == [c EXCEPT !.is_complete = TRUE]

\* _run_verification ends the context on a verdict
EndWith(c, reason) == [c EXCEPT !.is_complete = TRUE, !.completion_reason = reason]

\* the verdict is counted in the context
CountVerification(c) == [c EXCEPT !.verification_count = @ + 1]

\* the recovery gate of _run_verification
RecoveryExhausted(recovery_attempts) == recovery_attempts >= config.max_recovery_attempts

\* what _run_verification does with a verdict: only `passed` is looked at
VerdictBranch(passed, recovery_attempts) ==
    IF passed THEN "verified"
    ELSE IF RecoveryExhausted(recovery_attempts) THEN "max_recovery"
    ELSE "recover"

\* _run_verification: verify, count, log; on a failure the recovery gate, the
\* recovery event and the strategy; a new context object starts a nested
\* _agent_loop, the same object lets the caller's loop go on
RunVerification ==
    /\ pc = "verify"
    /\ \E outcome \in VerifierOutcomes(config.verification_method),
          recovered \in RecoverOutcomes(config.recovery_strategy) :
        LET method == config.verification_method
            strategy == config.recovery_strategy
            message == VerifierMessage(method, outcome)
            t1 == IF ~UsesTransport(method) THEN transport
                  ELSE IF outcome = "raise" THEN CallFailed(transport)
                  ELSE Billed(transport, ReviewResponse(outcome = "passed"))
            c1 == CountVerification(Current)
            ev1 == log_verification(events, outcome = "passed")
            ev2 == log_recovery(ev1, Top.recovery_attempts + 1)
            branch == VerdictBranch(outcome = "passed", Top.recovery_attempts)
            new_id == Len(contexts) + 1
            fresh_usage == Len(usages) + 1
            fresh_list == Len(tool_lists) + 1
        IN
        /\ verification' = IF outcome = "raise" THEN verification
                           ELSE [passed |-> outcome = "passed", message |-> {message},
                                 branch |-> branch]
        /\ IF outcome = "raise"
           THEN /\ Raise("transport error")
                /\ transport' = t1
                /\ UNCHANGED <<contexts, usages, tool_lists, events>>
           ELSE IF branch = "verified"
           THEN /\ contexts' = [contexts EXCEPT ![CurrentId] =
                       EndWith(c1, "verified")]
                /\ events' = ev1
                /\ transport' = t1
                /\ pc' = "build"
                /\ UNCHANGED <<frames, usages, tool_lists, error>>
           ELSE IF branch = "max_recovery"
           THEN /\ contexts' = [contexts EXCEPT ![CurrentId] =
                       EndWith(c1, "max_recovery")]
                /\ events' = ev1
                /\ transport' = t1
                /\ pc' = "build"
                /\ UNCHANGED <<frames, usages, tool_lists, error>>
           ELSE IF strategy = "retry_in_context"
           THEN /\ contexts' = [contexts EXCEPT ![CurrentId] =
                       [RetryInContext_recover(c1, message) EXCEPT !.is_complete = FALSE]]
                /\ events' = ev2
                /\ transport' = t1
                /\ pc' = Continue(Top.tool_uses)
                /\ UNCHANGED <<frames, usages, tool_lists, error>>
           ELSE IF strategy = "compact_and_retry" /\ recovered = "raise"
           THEN /\ Raise("transport error")
                /\ contexts' = [contexts EXCEPT ![CurrentId] = c1]
                /\ events' = ev2
                /\ transport' = CallFailed(t1)
                /\ UNCHANGED <<usages, tool_lists>>
           ELSE /\ contexts' = Append([contexts EXCEPT ![CurrentId] = c1],
                       IF strategy = "compact_and_retry"
                       THEN CompactAndRetry_recover(c1, message, "summary",
                                                    fresh_usage, fresh_list)
                       ELSE FreshRestart_recover(c1, message, fresh_usage, fresh_list))
                /\ usages' = Append(
                       IF strategy = "compact_and_retry"
                       THEN [usages EXCEPT ![c1.token_usage] =
                               CompactAndRetry_usage(@, SummaryResponse)]
                       ELSE usages,
                       TokenUsage)
                /\ tool_lists' = Append(tool_lists, <<>>)
                /\ events' = ev2
                /\ transport' = IF strategy = "compact_and_retry"
                                THEN Billed(t1, SummaryResponse) ELSE t1
                /\ frames' = Append(frames, Frame(new_id, Top.recovery_attempts + 1))
                /\ pc' = "guard"
                /\ error' = error
    /\ UNCHANGED <<config, tools, result, now, task_result, call, batch>>

\* the keyword arguments _build_result passes to TaskResult
BuildResultKwargs(c, u, calls, t) ==
    [ task_id |-> "task",
      resolved |-> (c.completion_reason = "verified"),
      input_tokens |-> u.input_tokens,
      output_tokens |-> u.output_tokens,
      cache_creation_input_tokens |-> u.cache_creation_input_tokens,
      cache_read_input_tokens |-> u.cache_read_input_tokens,
      cost_usd |-> u.total_cost_usd,
      wall_clock_seconds |-> elapsed_seconds(c, t),
      tool_call_count |-> Len(calls),
      verification_count |-> c.verification_count,
      recovery_count |-> c.recovery_count,
      iterations |-> c.iteration_count,
      completion_reason |-> c.completion_reason ]

\* the caller's context after a nested _agent_loop returned `r` from `inner`
CopyBack(outer, inner, r) ==
    [ outer EXCEPT
        !.is_complete = TRUE,
        !.completion_reason = IF inner.completion_reason # ""
                              THEN inner.completion_reason ELSE r.completion_reason,
        !.token_usage = inner.token_usage,
        !.verification_count = inner.verification_count,
        !.recovery_count = inner.recovery_count ]

\* _build_result at the end of an _agent_loop invocation: the constructor
\* raises on a keyword TaskResult does not declare; otherwise the result goes
\* to run, or to the _run_verification that started this nested loop, which
\* copies it back and lets its own loop build the result
BuildResult ==
    /\ pc = "build"
    /\ LET kw == BuildResultKwargs(Current, usages[Current.token_usage],
                                   tool_lists[Current.tool_calls], now)
       IN
       IF ~TaskResultAccepts(kw)
       THEN /\ Raise("TypeError: unexpected keyword argument")
            /\ UNCHANGED <<contexts, result>>
       ELSE IF Len(frames) = 1
       THEN /\ result' = TaskResult(kw)
            /\ frames' = <<>>
            /\ pc' = "end"
            /\ UNCHANGED <<contexts, error>>
       ELSE /\ contexts' = [contexts EXCEPT ![frames[Len(frames) - 1].context] =
                                CopyBack(@, Current, TaskResult(kw))]
            /\ frames' = SubSeq(frames, 1, Len(frames) - 1)
            /\ pc' = "build"
            /\ UNCHANGED <<result, error>>
    /\ UNCHANGED <<config, tools, verification, usages, tool_lists, events, now, transport, task_result, call, batch>>

\* the context run() created and reads in its handler
RunContext == contexts[1]

\* variant: the except clause derives `resolved` from the context's reason, as
\* _build_result does
ExceptResultKwargs_ResolvedFromContext(c, u, calls, t, e) ==
    [ task_id |-> "task",
      resolved |-> (c.completion_reason = "verified"),
      input_tokens |-> u.input_tokens,
      output_tokens |-> u.output_tokens,
      wall_clock_seconds |-> elapsed_seconds(c, t),
      tool_call_count |-> Len(calls),
      verification_count |-> c.verification_count,
      recovery_count |-> c.recovery_count,
      iterations |-> c.iteration_count,
      completion_reason |-> "error",
      error |-> e ]

\* variant: the except clause reports the context's reason instead of "error"
ExceptResultKwargs_ReasonFromContext(c, u, calls, t, e) ==
    [ task_id |-> "task",
      resolved |-> FALSE,
      input_tokens |-> u.input_tokens,
      output_tokens |-> u.output_tokens,
      wall_clock_seconds |-> elapsed_seconds(c, t),
      tool_call_count |-> Len(calls),
      verification_count |-> c.verification_count,
      recovery_count |-> c.recovery_count,
      iterations |-> c.iteration_count,
      completion_reason |-> c.completion_reason,
      error |-> e ]

\* variant: the except clause reports a context that ended as resolved
ExceptResultKwargs_ResolvedFromFlag(c, u, calls, t, e) ==
    [ task_id |-> "task",
      resolved |-> c.is_complete,
      input_tokens |-> u.input_tokens,
      output_tokens |-> u.output_tokens,
      wall_clock_seconds |-> elapsed_seconds(c, t),
      tool_call_count |-> Len(calls),
      verification_count |-> c.verification_count,
      recovery_count |-> c.recovery_count,
      iterations |-> c.iteration_count,
      completion_reason |-> "error",
      error |-> e ]

\* the keyword arguments of the result run() builds in its except clause
ExceptResultKwargs(c, u, calls, t, e) ==
    [ task_id |-> "task",
      resolved |-> FALSE,
      input_tokens |-> u.input_tokens,
      output_tokens |-> u.output_tokens,
      wall_clock_seconds |-> elapsed_seconds(c, t),
      tool_call_count |-> Len(calls),
      verification_count |-> c.verification_count,
      recovery_count |-> c.recovery_count,
      iterations |-> c.iteration_count,
      completion_reason |-> "error",
      error |-> e ]

\* run(): except Exception
RunExcept ==
    /\ pc = "except"
    /\ LET kw == ExceptResultKwargs(RunContext, usages[RunContext.token_usage],
                                    tool_lists[RunContext.tool_calls], now, error)
       IN IF TaskResultAccepts(kw)
          THEN result' = TaskResult(kw) /\ pc' = "end"
          ELSE result' = result /\ pc' = "crashed"
    /\ error' = ""
    /\ UNCHANGED <<config, tools, verification, frames, contexts, usages, tool_lists, events, now, transport, task_result, call, batch>>

\* run(): log run_end and return the result
RunEnd ==
    /\ pc = "end"
    /\ events' = log_run_end(events, result)
    /\ pc' = "done"
    /\ UNCHANGED <<config, tools, verification, frames, contexts, usages, tool_lists, result, error, now, transport, task_result, call, batch>>

(***************************************************************************)
(* scripts/run_experiment.py: the batch runner's handling of one task      *)
(***************************************************************************)
\* the results the runner builds itself
RunnerResult(reason, e) ==
    TaskResult([task_id |-> "task", resolved |-> FALSE, completion_reason |-> reason,
                error |-> e])

\* _run_single up to harness.run: provisioning or the construction of the
\* harness may raise
RunSingleStart ==
    /\ pc = "provision"
    /\ \E outcome \in {"ok", "provision_error", "harness_error"} :
        IF outcome = "ok"
        THEN pc' = "start" /\ task_result' = task_result
        ELSE pc' = "collected" /\ task_result' = RunnerResult(outcome, outcome)
    /\ UNCHANGED <<config, tools, verification, frames, contexts, usages, tool_lists, events, result, error, now,
                   transport, call, batch>>

\* the fields of the result that _run_single reads for its progress line
ProgressFields ==
    {"input_tokens", "cache_creation_input_tokens", "cache_read_input_tokens",
     "completion_reason", "output_tokens", "cost_usd", "wall_clock_seconds", "iterations"}

\* _run_single after harness.run returned: reading a field the result does
\* not have raises out of the worker, and the collecting loop records the
\* exception as a result of its own
RunSingleReturn ==
    /\ pc = "done"
    /\ task_result' = IF ProgressFields \subseteq DOMAIN result
                      THEN result
                      ELSE RunnerResult("exception", "AttributeError")
    /\ pc' = "collected"
    /\ UNCHANGED <<config, tools, verification, frames, contexts, usages, tool_lists, events, result, error, now,
                   transport, call, batch>>

\* no function is called on its own, no trial is run
NoCall == [function |-> "none"]
NoBatch == [phase |-> "none"]

Init ==
    /\ config \in HarnessConfig
    /\ pc = "provision"
    /\ frames = <<>>
    /\ contexts = <<>>
    /\ usages = <<>>
    /\ tool_lists = <<>>
    /\ events = <<>>
    /\ result = NoResult
    /\ task_result = NoResult
    /\ error = ""
    /\ now = 0
    /\ transport = NoTraffic
    /\ tools = [calls |-> 0, failures |-> 0]
    /\ verification = NoVerdict
    /\ call = NoCall
    /\ batch = NoBatch

Next ==
    \/ RunSingleStart
    \/ RunStart
    \/ Guard
    \/ Generate
    \/ ExecuteTool
    \/ RunVerification
    \/ BuildResult
    \/ RunExcept
    \/ RunEnd
    \/ RunSingleReturn

Spec == Init /\ [][Next]_vars

(***************************************************************************)
(* The verifiers called on their own: every verification method, with or   *)
(* without an llm_client, and the gate of _run_verification on the verdict *)
(***************************************************************************)
VerifierConfigs ==
    { [c EXCEPT !.verification_method = method] :
        c \in { h \in HarnessConfig : /\ h.verification_granularity = "task_end_only"
                                      /\ h.recovery_strategy = "retry_in_context"
                                      /\ h.max_iterations = MaxIterations },
        method \in AllVerificationMethods }

\* self.verifier.verify(context, task, llm_client) and the branch
\* _run_verification takes on its verdict
VerifierCall ==
    /\ pc = "verifier"
    /\ \E in \in VerifierInputs, recovery_attempts \in 0..MaxRecoveryAttempts :
        LET v == Verifier_verify(config.verification_method, in) IN
        /\ verification' =
                [ passed |-> v.passed,
                  message |-> v.message,
                  branch |-> IF v.raised THEN ""
                             ELSE VerdictBranch(v.passed, recovery_attempts),
                  inputs |-> in,
                  recovery_attempts |-> recovery_attempts ]
        /\ error' = IF v.raised THEN "transport error" ELSE error
        /\ pc' = IF v.raised THEN "verifier_raised" ELSE "verdict"
    /\ UNCHANGED <<config, tools, frames, contexts, usages, tool_lists, events, result, now,
                   transport, task_result, call, batch>>

InitVerifier ==
    /\ config \in VerifierConfigs
    /\ pc = "verifier"
    /\ frames = <<>>
    /\ contexts = <<>>
    /\ usages = <<>>
    /\ tool_lists = <<>>
    /\ events = <<>>
    /\ result = NoResult
    /\ task_result = NoResult
    /\ error = ""
    /\ now = 0
    /\ transport = NoTraffic
    /\ tools = [calls |-> 0, failures |-> 0]
    /\ verification = NoVerdict
    /\ call = NoCall
    /\ batch = NoBatch

NextVerifier == VerifierCall

SpecVerifier == InitVerifier /\ [][NextVerifier]_vars

(***************************************************************************)
(* The recovery strategies called on their own: R1 and R2 constructed      *)
(* without an llm_client, each on its own copy of the same heap            *)
(***************************************************************************)
\* the conversations recover is called on
RecoveryMessages ==
    LET c0 == add_user_message(Context(0, 1, 1), {"task.description"})
        c1 == add_assistant_message(c0, <<TextBlock({TASK_COMPLETE_MARKER})>>)
        c2 == add_tool_result(add_assistant_message(c0, <<ToolUseBlock(1)>>), 1, <<"output">>)
    IN { c1.messages, c2.messages }

\* the contexts recover is called on: a verdict has just been counted, and
\* the context is complete when the verdict followed a declared completion
RecoveryInputs ==
    { [ Context(0, 1, 1) EXCEPT !.messages = m,
                                !.iteration_count = i,
                                !.verification_count = v,
                                !.recovery_count = r,
                                !.is_complete = f,
                                !.completion_reason = IF f THEN "agent_declared" ELSE "" ] :
        m \in RecoveryMessages, i \in 1..MaxIterations,
        v \in 1..(MaxRecoveryAttempts + 1), r \in 0..MaxRecoveryAttempts, f \in BOOLEAN }

\* strategy.recover(context, verification, task) of a strategy that mutates
\* its input: the heap afterwards and the object returned
RecoverInPlace(heap, id, recovered) ==
    [ contexts |-> [heap EXCEPT ![id] = recovered], returned |-> id, raised |-> FALSE ]

RecoverCall ==
    /\ pc = "recover"
    /\ LET message == VerifierMessage(config.verification_method, "failed") IN
       call' = [ function |-> "recover",
                 message |-> message,
                 R1 |-> RecoverInPlace(contexts, 1,
                            RetryInContext_recover(contexts[1], message)),
                 R2 |-> RecoverInPlace(contexts, 1,
                            CompactAndRetry_recover_NoClient(contexts[1], message)) ]
    /\ pc' = "recovered"
    /\ UNCHANGED <<config, tools, verification, frames, contexts, usages, tool_lists, events,
                   result, error, now, transport, task_result, batch>>

InitRecovery ==
    /\ config \in { h \in HarnessConfig : /\ h.verification_granularity = "task_end_only"
                                           /\ h.recovery_strategy = "compact_and_retry"
                                           /\ h.max_iterations = MaxIterations }
    /\ pc = "recover"
    /\ frames = <<>>
    /\ \E c \in RecoveryInputs : contexts = <<c>>
    /\ usages = <<TokenUsage>>
    /\ tool_lists = << <<>> >>
    /\ events = <<>>
    /\ result = NoResult
    /\ task_result = NoResult
    /\ error = ""
    /\ now = 0
    /\ transport = NoTraffic
    /\ tools = [calls |-> 0, failures |-> 0]
    /\ verification = NoVerdict
    /\ call = NoCall
    /\ batch = NoBatch

NextRecovery == RecoverCall

SpecRecovery == InitRecovery /\ [][NextRecovery]_vars

(***************************************************************************)
(* tools/bash.py and tools/file_ops.py: the tools called on their own      *)
(***************************************************************************)
\* the sequences over S of length up to n
SeqsUpTo(S, n) == UNION { [1..k -> S] : k \in 0..n }

\* s[from..] without its first n elements
Drop(s, n) == SubSeq(s, n + 1, Len(s))

\* `sub` occurs in s at position i (Python: s.startswith(sub, i - 1))
OccursAt(s, sub, i) ==
    /\ i \in 1..(Len(s) + 1)
    /\ i + Len(sub) - 1 <= Len(s)
    /\ SubSeq(s, i, i + Len(sub) - 1) = sub

\* Python's `sub in s`
str_contains(s, sub) == \E i \in 1..(Len(s) + 1) : OccursAt(s, sub, i)

\* Python's s.find(sub, from - 1) + 1: the leftmost occurrence at or after
\* `from`, 0 when there is none
str_find(s, sub, from) ==
    IF \E i \in from..(Len(s) + 1) : OccursAt(s, sub, i)
    THEN CHOOSE i \in from..(Len(s) + 1) :
            /\ OccursAt(s, sub, i)
            /\ \A j \in from..(i - 1) : ~OccursAt(s, sub, j)
    ELSE 0

\* Python's s.count(sub): occurrences that do not overlap, scanned from the
\* left; the empty string is counted between all characters
RECURSIVE str_count_from(_, _, _)
str_count_from(s, sub, from) ==
    LET i == str_find(s, sub, from) IN
    IF i = 0 THEN 0 ELSE 1 + str_count_from(s, sub, i + Len(sub))

str_count(s, sub) == IF sub = <<>> THEN Len(s) + 1 ELSE str_count_from(s, sub, 1)

\* Python's s.replace(old, new, 1): the leftmost occurrence replaced
str_replace_first(s, old, new) ==
    LET i == str_find(s, old, 1) IN
    IF i = 0 THEN s
    ELSE SubSeq(s, 1, i - 1) \o new \o Drop(s, i - 1 + Len(old))

\* a command is the sequence of its words, joined by single blanks
CommandWords ==
    {"pip", "PIP", "install", "Install", "-e", "python3", "setup.py", "SETUP.PY",
     "develop", "ls"}

\* str.lower on a word
str_lower(word) ==
    CASE word = "PIP" -> "pip"
      [] word = "Install" -> "install"
      [] word = "SETUP.PY" -> "setup.py"
      [] OTHER -> word

command_lower(command) == [i \in 1..Len(command) |-> str_lower(command[i])]

\* BashTool._BLOCKED_PATTERNS, in the order of the list
BLOCKED_PATTERNS ==
    << <<"pip", "install", "-e">>,
       <<"pip", "install", "--editable">>,
       <<"pip3", "install", "-e">>,
       <<"pip3", "install", "--editable">>,
       <<"python", "setup.py", "develop">>,
       <<"python3", "setup.py", "develop">>,
       <<"python", "setup.py", "install">>,
       <<"python3", "setup.py", "install">> >>

\* what subprocess.run can do with a command
SubprocessOutcomes == {"exit 0", "exit 1", "TimeoutExpired", "OSError"}

\* the string the tool returns after subprocess.run
BashOutput(outcome) ==
    CASE outcome = "exit 0" -> <<"output">>
      [] outcome = "exit 1" -> <<"output", "[Exit code: 1]">>
      [] outcome = "TimeoutExpired" -> <<"Error", "Command timed out">>
      [] outcome = "OSError" -> <<"Error executing command">>

\* variant: the command is compared with the patterns as it was typed
BashTool_execute_CaseSensitive(command, outcome) ==
    LET hits == { k \in 1..Len(BLOCKED_PATTERNS) : str_contains(command, BLOCKED_PATTERNS[k]) }
    IN
    IF hits # {}
    THEN [ result |-> <<"Error", "blocked">>, subprocess_runs |-> 0, raised |-> FALSE ]
    ELSE [ result |-> BashOutput(outcome), subprocess_runs |-> 1, raised |-> FALSE ]

\* BashTool.execute: the blocklist is tested on the lowered command before
\* any subprocess is started
BashTool_execute(command, outcome) ==
    LET cmd_lower == command_lower(command)
        hits == { k \in 1..Len(BLOCKED_PATTERNS) : str_contains(cmd_lower, BLOCKED_PATTERNS[k]) }
    IN
    IF hits # {}
    THEN [ result |-> <<"Error", "blocked">>, subprocess_runs |-> 0, raised |-> FALSE ]
    ELSE [ result |-> BashOutput(outcome), subprocess_runs |-> 1, raised |-> FALSE ]

\* the characters of the files and of the strings of an edit
Characters == {"a", "b"}

\* what reading and writing the file can do
FileOutcomes == {"ok", "OSError"}

\* FileEditTool.execute on a file ([exists, content]): the string returned
\* and the file afterwards
FileEditTool_execute(file, old_string, new_string, outcome) ==
    IF ~file.exists
    THEN [ result |-> <<"Error", "File not found">>, file |-> file ]
    ELSE IF outcome = "OSError"
    THEN [ result |-> <<"Error editing file">>, file |-> file ]
    ELSE IF ~str_contains(file.content, old_string)
    THEN [ result |-> <<"Error", "old_string not found">>, file |-> file ]
    ELSE IF str_count(file.content, old_string) > 1
    THEN [ result |-> <<"Error", "old_string found", "times">>, file |-> file ]
    ELSE [ result |-> <<"Successfully edited">>,
           file |-> [file EXCEPT !.content =
                        str_replace_first(file.content, old_string, new_string)] ]

\* the tool calls made
ToolCalls ==
    { [function |-> "bash", command |-> command] :
        command \in SeqsUpTo(CommandWords, MaxCommandLen) }
    \cup
    { [function |-> "file_edit", file |-> [exists |-> e, content |-> content],
       old_string |-> old, new_string |-> new] :
        e \in BOOLEAN, content \in SeqsUpTo(Characters, MaxTextLen),
        old \in SeqsUpTo(Characters, MaxTextLen - 1), new \in SeqsUpTo(Characters, 1) }

BashCall ==
    /\ pc = "tool"
    /\ call.function = "bash"
    /\ \E outcome \in SubprocessOutcomes :
        call' = [ function |-> "bash", input |-> call,
                  returned |-> BashTool_execute(call.command, outcome) ]
    /\ pc' = "tool_returned"
    /\ UNCHANGED <<config, tools, verification, frames, contexts, usages, tool_lists, events,
                   result, error, now, transport, task_result, batch>>

FileEditCall ==
    /\ pc = "tool"
    /\ call.function = "file_edit"
    /\ \E outcome \in FileOutcomes :
        call' = [ function |-> "file_edit", input |-> call,
                  returned |-> FileEditTool_execute(call.file, call.old_string,
                                                    call.new_string, outcome) ]
    /\ pc' = "tool_returned"
    /\ UNCHANGED <<config, tools, verification, frames, contexts, usages, tool_lists, events,
                   result, error, now, transport, task_result, batch>>

InitTools ==
    /\ config \in { h \in HarnessConfig : /\ h.verification_granularity = "task_end_only"
                                           /\ h.recovery_strategy = "retry_in_context"
                                           /\ h.verification_method = "none"
                                           /\ h.max_recovery_attempts = MaxRecoveryAttempts
                                           /\ h.max_iterations = MaxIterations }
    /\ pc = "tool"
    /\ frames = <<>>
    /\ contexts = <<>>
    /\ usages = <<>>
    /\ tool_lists = <<>>
    /\ events = <<>>
    /\ result = NoResult
    /\ task_result = NoResult
    /\ error = ""
    /\ now = 0
    /\ transport = NoTraffic
    /\ tools = [calls |-> 0, failures |-> 0]
    /\ verification = NoVerdict
    /\ call \in ToolCalls
    /\ batch = NoBatch

NextTools ==
    \/ BashCall
    \/ FileEditCall

SpecTools == InitTools /\ [][NextTools]_vars

(***************************************************************************)
(* scripts/run_experiment.py: run_experiment_async, the trials of a batch  *)
(* with their worker pool, and benchmark/swebench.py: provision_workspace  *)
(***************************************************************************)
\* the loaded tasks, by their position in `tasks`
Tasks == 1..MaxTasks

\* the num_trials of the experiment's configuration: a second trial finds the
\* workspaces and the task.workspace_dir of the first
num_trials == 2

\* directories are paths: config.harness.workspace_dir and, under it, the
\* directory provision_workspace gives a task
workspace_root == <<"agent-workspace">>
task_id(i) == ToString(i)
Workspace(i) == Append(workspace_root, task_id(i))
Directories == {workspace_root} \cup { Workspace(i) : i \in Tasks }

\* the results the runner builds itself, for a task of the batch
RunnerResultFor(i, reason, e) == [RunnerResult(reason, e) EXCEPT !.task_id = task_id(i)]

\* the results AgentHarness.run can return for a task: the one _build_result
\* builds, if TaskResult takes its keywords, and the one of the except clause
HarnessResults(i) ==
    LET c == add_user_message(Context(0, 1, 1), {"task.description"})
        built == BuildResultKwargs([c EXCEPT !.is_complete = TRUE,
                                             !.completion_reason = "verified"],
                                   TokenUsage, <<>>, 0)
        failed == ExceptResultKwargs(c, TokenUsage, <<>>, 0, "error")
    IN { [TaskResult(kw) EXCEPT !.task_id = task_id(i)] :
            kw \in { k \in {built, failed} : TaskResultAccepts(k) } }

\* a worker that has not been given its task yet
Queued == [state |-> "queued", value |-> NoResult]

\* the workers of the pool that hold a thread
Active(b) == { i \in Tasks : b.worker[i].state \in {"provisioning", "ready", "agent"} }

\* provision_workspace(task): an existing workspace is reset to the base
\* commit and cleaned, a missing one is cloned; then task.workspace_dir is set
provision_workspace(b, i) ==
    [ b EXCEPT !.exists = @ \cup {Workspace(i)},
               !.files[Workspace(i)] = 0,
               !.workspace_dir[i] = Workspace(i) ]

\* the loop over the tasks before the pool is started: an exception of the
\* provisioner is printed and the loop goes on
ProvisionSequential ==
    /\ batch.phase = "provisioning"
    /\ batch.next <= MaxTasks
    /\ \E outcome \in {"ok", "raises"} :
        batch' = [ (IF outcome = "ok" THEN provision_workspace(batch, batch.next) ELSE batch)
                     EXCEPT !.next = @ + 1 ]
    /\ UNCHANGED <<config, pc, tools, verification, frames, contexts, usages, tool_lists,
                   events, result, error, now, transport, task_result, call>>

\* every task is submitted to the executor
FanOut ==
    /\ batch.phase = "provisioning"
    /\ batch.next > MaxTasks
    /\ batch' = [batch EXCEPT !.phase = "running", !.worker = [i \in Tasks |-> Queued]]
    /\ UNCHANGED <<config, pc, tools, verification, frames, contexts, usages, tool_lists,
                   events, result, error, now, transport, task_result, call>>

\* a free thread of the pool takes the task submitted first and enters
\* _run_single, which calls provision_workspace again
WorkerStart(i) ==
    /\ batch.phase = "running"
    /\ batch.worker[i].state = "queued"
    /\ \A j \in 1..(i - 1) : batch.worker[j].state # "queued"
    /\ Cardinality(Active(batch)) < batch.max_parallel
    /\ batch' = [batch EXCEPT !.worker[i].state = "provisioning"]
    /\ UNCHANGED <<config, pc, tools, verification, frames, contexts, usages, tool_lists,
                   events, result, error, now, transport, task_result, call>>

\* the worker's provision_workspace returns or raises
WorkerProvisioned(i) ==
    /\ batch.phase = "running"
    /\ batch.worker[i].state = "provisioning"
    /\ \E outcome \in {"ok", "raises"} :
        batch' = IF outcome = "ok"
                 THEN [provision_workspace(batch, i) EXCEPT !.worker[i].state = "ready"]
                 ELSE [batch EXCEPT !.worker[i] =
                          [state |-> "returned",
                           value |-> RunnerResultFor(i, "provision_error", "provision_error")]]
    /\ UNCHANGED <<config, pc, tools, verification, frames, contexts, usages, tool_lists,
                   events, result, error, now, transport, task_result, call>>

\* AgentHarness(config=config.harness, logger=logger): the tools are created
\* for config.workspace_dir; the constructor may raise
WorkerHarness(i) ==
    /\ batch.phase = "running"
    /\ batch.worker[i].state = "ready"
    /\ \E outcome \in {"ok", "raises"} :
        batch' = IF outcome = "ok"
                 THEN [batch EXCEPT !.worker[i].state = "agent",
                                    !.tools_dir[i] = workspace_root,
                                    !.workspace_dir[i] =
                                        IF @ # <<>> THEN @ ELSE workspace_root]
                 ELSE [batch EXCEPT !.worker[i] =
                          [state |-> "returned",
                           value |-> RunnerResultFor(i, "harness_error", "harness_error")]]
    /\ UNCHANGED <<config, pc, tools, verification, frames, contexts, usages, tool_lists,
                   events, result, error, now, transport, task_result, call>>

\* a tool of the task's agent loop writes the relative path "f": the file is
\* the one under the directory the tool was created with
AgentWrites(i) ==
    /\ batch.phase = "running"
    /\ batch.worker[i].state = "agent"
    /\ batch.files[batch.tools_dir[i]] # i
    /\ batch' = [batch EXCEPT !.files[batch.tools_dir[i]] = i]
    /\ UNCHANGED <<config, pc, tools, verification, frames, contexts, usages, tool_lists,
                   events, result, error, now, transport, task_result, call>>

\* harness.run returns and _run_single reads the result for its progress
\* line: a missing field raises out of the worker
AgentReturns(i) ==
    /\ batch.phase = "running"
    /\ batch.worker[i].state = "agent"
    /\ \E r \in HarnessResults(i) :
        batch' = [batch EXCEPT !.worker[i] =
                    IF ProgressFields \subseteq DOMAIN r
                    THEN [state |-> "returned", value |-> r]
                    ELSE [state |-> "raised", value |-> r]]
    /\ UNCHANGED <<config, pc, tools, verification, frames, contexts, usages, tool_lists,
                   events, result, error, now, transport, task_result, call>>

\* variant: the workers that raised are left out of the trial's results
CollectedResults_RaisedLeftOut(worker) ==
    LET kept == SelectSeq([i \in Tasks |-> i], LAMBDA i : worker[i].state = "returned")
    IN [k \in 1..Len(kept) |-> worker[kept[k]].value]

\* gather(*futures, return_exceptions=True) and the loop over
\* zip(tasks, results): one result per task, in the order of the tasks
CollectedResults(worker) ==
    [ i \in Tasks |->
        IF worker[i].state = "raised"
        THEN RunnerResultFor(i, "exception", "AttributeError")
        ELSE worker[i].value ]

\* all futures are done: the trial's results are collected
Collect ==
    /\ batch.phase = "running"
    /\ \A i \in Tasks : batch.worker[i].state \in {"returned", "raised"}
    /\ batch' = [batch EXCEPT !.phase = "collected",
                              !.task_results = CollectedResults(batch.worker),
                              !.all_results = @ \o CollectedResults(batch.worker)]
    /\ UNCHANGED <<config, pc, tools, verification, frames, contexts, usages, tool_lists,
                   events, result, error, now, transport, task_result, call>>

\* the fields of the results that _save_summary reads
SummaryFields ==
    {"resolved", "cost_usd", "input_tokens", "output_tokens", "cache_read_input_tokens",
     "cache_creation_input_tokens", "wall_clock_seconds", "task_id", "tool_call_count",
     "verification_count", "recovery_count", "iterations", "completion_reason", "error"}

\* the next trial, or _save_summary after the last one
NextTrial ==
    /\ batch.phase = "collected"
    /\ batch' =
         IF batch.trial < num_trials
         THEN [batch EXCEPT !.phase = "provisioning", !.trial = @ + 1, !.next = 1]
         ELSE [batch EXCEPT !.phase =
                 IF \A k \in 1..Len(batch.all_results) :
                        SummaryFields \subseteq DOMAIN batch.all_results[k]
                 THEN "saved" ELSE "crashed"]
    /\ UNCHANGED <<config, pc, tools, verification, frames, contexts, usages, tool_lists,
                   events, result, error, now, transport, task_result, call>>

InitRunner ==
    /\ config \in { h \in HarnessConfig : /\ h.verification_granularity = "task_end_only"
                                           /\ h.recovery_strategy = "retry_in_context"
                                           /\ h.verification_method = "none"
                                           /\ h.max_recovery_attempts = MaxRecoveryAttempts
                                           /\ h.max_iterations = MaxIterations }
    /\ pc = "batch"
    /\ frames = <<>>
    /\ contexts = <<>>
    /\ usages = <<>>
    /\ tool_lists = <<>>
    /\ events = <<>>
    /\ result = NoResult
    /\ task_result = NoResult
    /\ error = ""
    /\ now = 0
    /\ transport = NoTraffic
    /\ tools = [calls |-> 0, failures |-> 0]
    /\ verification = NoVerdict
    /\ call = NoCall
    /\ \E max_parallel \in 1..MaxTasks :
        batch = [ phase |-> "provisioning",
                  trial |-> 1,
                  max_parallel |-> max_parallel,
                  next |-> 1,
                  exists |-> {},
                  files |-> [d \in Directories |-> 0],
                  workspace_dir |-> [i \in Tasks |-> <<>>],
                  tools_dir |-> [i \in Tasks |-> <<>>],
                  worker |-> [i \in Tasks |-> Queued],
                  task_results |-> <<>>,
                  all_results |-> <<>> ]

NextRunner ==
    \/ ProvisionSequential
    \/ FanOut
    \/ \E i \in Tasks : WorkerStart(i)
    \/ \E i \in Tasks : WorkerProvisioned(i)
    \/ \E i \in Tasks : WorkerHarness(i)
    \/ \E i \in Tasks : AgentWrites(i)
    \/ \E i \in Tasks : AgentReturns(i)
    \/ Collect
    \/ NextTrial

SpecRunner == InitRunner /\ [][NextRunner]_vars

(***************************************************************************)
(* llm/anthropic.py and llm/openai_compat.py: generate called on its own.  *)
(* The caller's messages and tool schemas are objects of a heap, a list is *)
(* the sequence of the ids of its elements.                                *)
(***************************************************************************)
\* the content of a message: a str, or a list of content blocks
ContentShapes ==
    { [kind |-> "str", blocks |-> <<>>],
      [kind |-> "list", blocks |-> <<>>],
      [kind |-> "list", blocks |-> << [type |-> "text", cache_control |-> FALSE],
                                      [type |-> "text", cache_control |-> FALSE] >>] }

MessageShapes == [role : {"user", "assistant"}, content : ContentShapes]

\* ToolSet.to_api_schemas of no, one or two registered tools
SchemaLists ==
    { <<>>,
      << [name |-> "bash", cache_control |-> FALSE] >>,
      << [name |-> "bash", cache_control |-> FALSE],
         [name |-> "file_edit", cache_control |-> FALSE] >> }

\* the objects a list refers to
Resolve(heap, list) == [i \in 1..Len(list) |-> heap[list[i]]]

\* variant: the list returned holds the caller's own message objects
deepcopy_Shared(heap, list) == [heap |-> heap, list |-> list]

\* copy.deepcopy(messages): a new list of new objects
deepcopy(heap, list) ==
    [ heap |-> heap \o Resolve(heap, list),
      list |-> [i \in 1..Len(list) |-> Len(heap) + i] ]

\* _inject_cache_control(message), the message after the call
inject_cache_control(message) ==
    IF message.content.kind = "str"
    THEN [message EXCEPT !.content =
            [kind |-> "list",
             blocks |-> << [type |-> "text", cache_control |-> TRUE] >>]]
    ELSE IF message.content.blocks # <<>>
    THEN [message EXCEPT !.content.blocks =
            [@ EXCEPT ![Len(@)] = [@ EXCEPT !.cache_control = TRUE]]]
    ELSE message

\* _add_cache_breakpoints(messages): the list returned and the heap after
add_cache_breakpoints(heap, messages) ==
    IF Len(messages) < 4
    THEN [heap |-> heap, list |-> messages]
    ELSE LET msgs == deepcopy(heap, messages)
             user_msg_indices ==
                 { i \in 1..Len(msgs.list) : msgs.heap[msgs.list[i]].role = "user" }
         IN  IF Cardinality(user_msg_indices) >= 2
             THEN LET last == CHOOSE i \in user_msg_indices :
                                 \A j \in user_msg_indices : j <= i
                      target_idx == CHOOSE i \in user_msg_indices \ {last} :
                                       \A j \in user_msg_indices \ {last} : j <= i
                  IN  [ heap |-> [msgs.heap EXCEPT ![msgs.list[target_idx]] =
                                      inject_cache_control(@)],
                        list |-> msgs.list ]
             ELSE msgs

\* cached_tools: [dict(t) for t in tools] with its last element replaced by a
\* new dict that carries cache_control; None (no list) when tools is empty
cached_tools(heap, tools_) ==
    IF tools_ = <<>>
    THEN [heap |-> heap, list |-> <<>>]
    ELSE LET copies == heap \o Resolve(heap, tools_)
             marked == [heap[tools_[Len(tools_)]] EXCEPT !.cache_control = TRUE]
         IN  [ heap |-> copies \o <<marked>>,
               list |-> [i \in 1..Len(tools_) |->
                            IF i = Len(tools_) THEN Len(copies) + 1
                            ELSE Len(heap) + i] ]

\* response.stop_reason of the Messages API
NativeStopReasons == {"end_turn", "tool_use", "max_tokens", "stop_sequence", "refusal"}

\* choice.finish_reason of a chat completion
FinishReasons == {"stop", "tool_calls", "length", "content_filter"}

\* AnthropicClient.generate: the request sent, the LLMResponse returned and
\* the heap after the call; the objects the call created are its locals
AnthropicClient_generate(heap, messages, tools_, stop_reason) ==
    LET cached_messages == add_cache_breakpoints(heap, messages)
        cached == cached_tools(cached_messages.heap, tools_)
    IN  [ request |-> [ system |-> << [type |-> "text", cache_control |-> TRUE] >>,
                        tools |-> Resolve(cached.heap, cached.list),
                        messages |-> Resolve(cached.heap, cached_messages.list) ],
          returned |-> [ stop_reason |-> stop_reason,
                         cache_creation_input_tokens |-> 0,
                         cache_read_input_tokens |-> 0 ],
          heap |-> SubSeq(cached.heap, 1, Len(heap)) ]

\* _convert_message(msg) of a message of text blocks: its role is kept
convert_message(msg) == [role |-> msg.role]

\* _to_openai_tool(anthropic_tool)
to_openai_tool(anthropic_tool) == [type |-> "function", name |-> anthropic_tool.name]

\* the stop reason OpenAICompatClient.generate maps a finish reason to
OpenAICompat_stop_reason(finish_reason) ==
    IF finish_reason = "tool_calls" THEN "tool_use"
    ELSE IF finish_reason = "length" THEN "max_tokens"
    ELSE "end_turn"

\* OpenAICompatClient.generate
OpenAICompatClient_generate(heap, messages, tools_, finish_reason) ==
    [ request |-> [ system |-> << [role |-> "system"] >>,
                    tools |-> [i \in 1..Len(tools_) |-> to_openai_tool(heap[tools_[i]])],
                    messages |-> [i \in 1..Len(messages) |->
                                     convert_message(heap[messages[i]])] ],
      returned |-> [ stop_reason |-> OpenAICompat_stop_reason(finish_reason),
                     cache_creation_input_tokens |-> 0,
                     cache_read_input_tokens |-> 0 ],
      heap |-> heap ]

\* the calls of generate: a transcript and the tool schemas, in the heap
GenerateCalls ==
    { [ function |-> "generate", client |-> client,
        heap |-> transcript \o schemas,
        messages |-> [i \in 1..Len(transcript) |-> i],
        tools |-> [i \in 1..Len(schemas) |-> Len(transcript) + i] ] :
        client \in {"anthropic", "openai_compat"},
        transcript \in SeqsUpTo(MessageShapes, MaxMessages),
        schemas \in SchemaLists }

Generated(made) ==
    call' = [ function |-> "generate", client |-> call.client,
              heap |-> made.heap, messages |-> call.messages, tools |-> call.tools,
              request |-> made.request, returned |-> made.returned ]

AnthropicGenerate ==
    /\ pc \in {"generate", "generated"}
    /\ call.client = "anthropic"
    /\ \E stop_reason \in NativeStopReasons :
        Generated(AnthropicClient_generate(call.heap, call.messages, call.tools,
                                           stop_reason))
    /\ pc' = "generated"
    /\ UNCHANGED <<config, tools, verification, frames, contexts, usages, tool_lists, events,
                   result, error, now, transport, task_result, batch>>

OpenAICompatGenerate ==
    /\ pc \in {"generate", "generated"}
    /\ call.client = "openai_compat"
    /\ \E finish_reason \in FinishReasons :
        Generated(OpenAICompatClient_generate(call.heap, call.messages, call.tools,
                                              finish_reason))
    /\ pc' = "generated"
    /\ UNCHANGED <<config, tools, verification, frames, contexts, usages, tool_lists, events,
                   result, error, now, transport, task_result, batch>>

InitTransport ==
    /\ config \in { h \in HarnessConfig : /\ h.verification_granularity = "task_end_only"
                                           /\ h.recovery_strategy = "retry_in_context"
                                           /\ h.verification_method = "none"
                                           /\ h.max_recovery_attempts = MaxRecoveryAttempts
                                           /\ h.max_iterations = MaxIterations }
    /\ pc = "generate"
    /\ frames = <<>>
    /\ contexts = <<>>
    /\ usages = <<>>
    /\ tool_lists = <<>>
    /\ events = <<>>
    /\ result = NoResult
    /\ task_result = NoResult
    /\ error = ""
    /\ now = 0
    /\ transport = NoTraffic
    /\ tools = [calls |-> 0, failures |-> 0]
    /\ verification = NoVerdict
    /\ call \in GenerateCalls
    /\ batch = NoBatch

NextTransport ==
    \/ AnthropicGenerate
    \/ OpenAICompatGenerate

SpecTransport == InitTransport /\ [][NextTransport]_vars

(***************************************************************************)
(* scripts/docker_eval.py: extract_source_only_patch called on its own.    *)
(* A str is the sequence of its characters.                                *)
(***************************************************************************)
\* Python's s.startswith(prefix) and s.endswith(suffix)
str_startswith(s, prefix) == OccursAt(s, prefix, 1)
str_endswith(s, suffix) ==
    /\ Len(suffix) <= Len(s)
    /\ SubSeq(s, Len(s) - Len(suffix) + 1, Len(s)) = suffix

\* Python's s.split(sep) for a separator of one character
RECURSIVE str_split(_, _)
str_split(s, sep) ==
    IF \E i \in 1..Len(s) : s[i] = sep
    THEN LET i == CHOOSE k \in 1..Len(s) :
                     /\ s[k] = sep
                     /\ \A j \in 1..(k - 1) : s[j] # sep
         IN  <<SubSeq(s, 1, i - 1)>> \o str_split(Drop(s, i), sep)
    ELSE <<s>>

\* _is_test_file(filepath)
is_test_file(filepath) ==
    LET parts == str_split(filepath, "/")
        basename == parts[Len(parts)]
    IN  \/ str_startswith(basename, <<"t", "e", "s", "t", "_">>)
        \/ str_endswith(basename, <<"_", "t", "e", "s", "t", ".", "p", "y">>)
        \/ str_contains(filepath, <<"t", "e", "s", "t", "s", "/">>)
        \/ str_contains(filepath, <<"t", "e", "s", "t", "/">>)
        \/ str_contains(filepath, <<"t", "e", "s", "t", "i", "n", "g", "/">>)
        \/ basename = <<"c", "o", "n", "f", "t", "e", "s", "t", ".", "p", "y">>

\* the directory and file names the paths of a diff are made of
DirectoryNames ==
    { <<"s", "r", "c">>,
      <<"t", "e", "s", "t", "s">>,
      <<"l", "a", "t", "e", "s", "t">> }

FileNames ==
    { <<"x", ".", "p", "y">>,
      <<"t", "e", "s", "t", "_", "x", ".", "p", "y">>,
      <<"x", "_", "t", "e", "s", "t", ".", "p", "y">>,
      <<"c", "o", "n", "f", "t", "e", "s", "t", ".", "p", "y">>,
      <<"t", "e", "s", "t">> }

\* the sections re.split cuts a diff into at its `diff --git ` headers: a
\* section with the path of its header, or the text before the first header
FileDiffs ==
    { [header |-> TRUE, filepath |-> f] : f \in FileNames }
    \cup { [header |-> TRUE, filepath |-> d \o <<"/">> \o f] :
              d \in DirectoryNames, f \in FileNames }
    \cup { [header |-> FALSE, filepath |-> <<>>] }

\* extract_source_only_patch(diff, task_id): the sections joined
extract_source_only_patch(file_diffs) ==
    SelectSeq(file_diffs, LAMBDA fd : fd.header /\ ~is_test_file(fd.filepath))

ExtractSourceOnlyPatch ==
    /\ pc = "filter"
    /\ call' = [ function |-> "extract_source_only_patch", diff |-> call.diff,
                 returned |-> extract_source_only_patch(call.diff) ]
    /\ pc' = "filtered"
    /\ UNCHANGED <<config, tools, verification, frames, contexts, usages, tool_lists, events,
                   result, error, now, transport, task_result, batch>>

InitGrader ==
    /\ config \in { h \in HarnessConfig : /\ h.verification_granularity = "task_end_only"
                                           /\ h.recovery_strategy = "retry_in_context"
                                           /\ h.verification_method = "none"
                                           /\ h.max_recovery_attempts = MaxRecoveryAttempts
                                           /\ h.max_iterations = MaxIterations }
    /\ pc = "filter"
    /\ frames = <<>>
    /\ contexts = <<>>
    /\ usages = <<>>
    /\ tool_lists = <<>>
    /\ events = <<>>
    /\ result = NoResult
    /\ task_result = NoResult
    /\ error = ""
    /\ now = 0
    /\ transport = NoTraffic
    /\ tools = [calls |-> 0, failures |-> 0]
    /\ verification = NoVerdict
    /\ call \in { [function |-> "extract_source_only_patch", diff |-> diff] :
                    diff \in SeqsUpTo(FileDiffs, MaxSections) }
    /\ batch = NoBatch

NextGrader == ExtractSourceOnlyPatch

SpecGrader == InitGrader /\ [][NextGrader]_vars

(***************************************************************************)
(* Properties                                                              *)
(***************************************************************************)
CountEvents(kind) == Cardinality({i \in 1..Len(events) : events[i].event = kind})

\* AgentHarness.run has returned `result`
Returned == pc = "done"

\* C1: every result returned by AgentHarness.run, on the normal and on the
\* exception path, has resolved true exactly when its completion_reason is
\* "verified".
C1_ResolvedIffVerified ==
    Returned => (result.resolved <=> (result.completion_reason = "verified"))

\* a result was returned for a run whose verifier passed
C1_Witness ==
    /\ Returned
    /\ RunContext.completion_reason = "verified"
    /\ CountEvents("verification") > 0

AllVerificationsFailed ==
    \A i \in 1..Len(events) : events[i].event = "verification" => ~events[i].passed

\* every response so far was a text turn declaring TASK_COMPLETE
KeepsDeclaring ==
    \A i \in 1..Len(RunContext.messages) :
        RunContext.messages[i].role = "assistant" =>
            /\ Len(RunContext.messages[i].content) = 1
            /\ RunContext.messages[i].content[1].type = "text"
            /\ TASK_COMPLETE_MARKER \in RunContext.messages[i].content[1].text

\* the iteration, token and time budgets cannot fire before max_recovery
\* would: a declaring turn costs 2 tokens
BudgetsLargeEnough ==
    /\ config.max_iterations > config.max_recovery_attempts
    /\ config.max_tokens_budget > 2 * config.max_recovery_attempts
    /\ elapsed_seconds(RunContext, now) < config.timeout_seconds

\* C2: with R1, task-end granularity, a verifier that fails on every call and a
\* model that keeps declaring TASK_COMPLETE, the run makes no more than
\* max_recovery_attempts recoveries and max_recovery_attempts + 1
\* verifications, and ends with completion_reason "max_recovery" after exactly
\* that many (budgets large enough not to fire first).  Stated for the runs
\* in which recovery is allowed at all and every transport call returns.
C2_MaxRecoveryAfterExactlyMaxAttempts ==
    ( /\ pc \notin {"provision", "start", "collected"}
      /\ config.max_recovery_attempts > 0
      /\ transport.failures = 0
      /\ config.recovery_strategy = "retry_in_context"
      /\ config.verification_granularity = "task_end_only"
      /\ AllVerificationsFailed
      /\ KeepsDeclaring
      /\ BudgetsLargeEnough )
    => /\ CountEvents("recovery") <= config.max_recovery_attempts
       /\ CountEvents("verification") <= config.max_recovery_attempts + 1
       /\ Returned =>
            /\ result.completion_reason = "max_recovery"
            /\ result.recovery_count = config.max_recovery_attempts
            /\ result.verification_count = config.max_recovery_attempts + 1

\* C3: the iterations field of every returned result, also after R2/R3
\* recoveries, equals the number of llm_call events of the task.
C3_IterationsEqualLlmCallEvents ==
    Returned => result.iterations = CountEvents("llm_call")

\* C4: after one or more recoveries the input-token, output-token and cost
\* totals of the returned result equal the summed usage of every scheduler
\* generation of every attempt.  Stated for R3, the strategy of the claim's
\* example, and for runs in which every transport call returns.
C4_TotalsAcrossRecoveries ==
    ( /\ Returned
      /\ transport.failures = 0
      /\ config.recovery_strategy = "fresh_restart"
      /\ CountEvents("recovery") > 0 )
    => /\ result.input_tokens = transport.input_tokens
       /\ result.output_tokens = transport.output_tokens
       /\ "cost_usd" \in DOMAIN result
       /\ result.cost_usd = transport.cost_usd

\* C5: the verification_count of every returned result equals the number of
\* verification events of the task, for every verifier, granularity and
\* recovery strategy, also on the exception path after a recovery.
C5_VerificationCountEqualsEvents ==
    Returned => result.verification_count = CountEvents("verification")

\* C6: the recovery_count of every returned result equals the number of
\* recovery events of the task, for R1, R2 and R3, also when the strategy
\* raises after the event was logged.
C6_RecoveryCountEqualsEvents ==
    Returned => result.recovery_count = CountEvents("recovery")

\* the context the scheduler currently works on: that of the innermost
\* _agent_loop, or run's own once the loops are left
Observed == IF frames # <<>> THEN Current ELSE RunContext
ObservedUsage == usages[Observed.token_usage]

\* C7: the cumulative counters seen through the scheduler's current context
\* never decrease from one step to the next, also where control passes to a
\* new R2/R3 context and where it comes back to the outer context the result
\* is built from.
C7_CountersNeverDecrease ==
    [][ contexts # <<>> =>
          /\ Observed'.iteration_count >= Observed.iteration_count
          /\ Observed'.verification_count >= Observed.verification_count
          /\ Observed'.recovery_count >= Observed.recovery_count
          /\ ObservedUsage'.input_tokens >= ObservedUsage.input_tokens
          /\ ObservedUsage'.output_tokens >= ObservedUsage.output_tokens
          /\ ObservedUsage'.cache_creation_input_tokens >= ObservedUsage.cache_creation_input_tokens
          /\ ObservedUsage'.cache_read_input_tokens >= ObservedUsage.cache_read_input_tokens
          /\ ObservedUsage'.total_cost_usd >= ObservedUsage.total_cost_usd ]_vars

CompletionReasons ==
    {"verified", "agent_declared", "max_iterations", "token_budget", "timeout",
     "max_recovery", "provision_error", "harness_error", "exception"}

\* a result exists: run's, and the one the batch runner recorded
ReasonsProduced ==
    (IF pc \in {"done", "collected"} /\ result # NoResult
     THEN {result.completion_reason} ELSE {})
    \cup (IF pc = "collected" THEN {task_result.completion_reason} ELSE {})

C9_ZeroIterations ==
    (Returned /\ config.max_iterations = 0)
    => /\ transport.calls = 0
       /\ CountEvents("tool_call") = 0
       /\ result.completion_reason = "max_iterations"
       /\ result.input_tokens = 0
       /\ result.output_tokens = 0
       /\ result.tool_call_count = 0
       /\ ~result.resolved

\* the first response had no tool use and declared TASK_COMPLETE, and the
\* verifier passed
FirstResponseDeclaresAndPasses ==
    /\ Len(RunContext.messages) >= 2
    /\ RunContext.messages[2].role = "assistant"
    /\ \A i \in 1..Len(RunContext.messages[2].content) :
            RunContext.messages[2].content[i].type # "tool_use"
    /\ \E i \in 1..Len(RunContext.messages[2].content) :
            /\ RunContext.messages[2].content[i].type = "text"
            /\ TASK_COMPLETE_MARKER \in RunContext.messages[2].content[i].text
    /\ \E i \in 1..Len(events) :
            /\ events[i].event = "verification"
            /\ events[i].passed
            /\ \A j \in 1..(i - 1) : events[j].event # "verification"

\* C10: when the first response has no tool use and declares TASK_COMPLETE and
\* the verifier passes, the run ends "verified" with resolved true, one
\* iteration, one verification, no tool call and no recovery.
C10_FirstVerdictPasses ==
    (Returned /\ FirstResponseDeclaresAndPasses)
    => /\ result.completion_reason = "verified"
       /\ result.resolved
       /\ result.iterations = 1
       /\ result.verification_count = 1
       /\ result.tool_call_count = 0
       /\ result.recovery_count = 0

GuardReasons == {"max_iterations", "token_budget", "timeout"}

\* a guard has ended the loop of some context
GuardFired ==
    \E i \in 1..Len(contexts) :
        contexts[i].is_complete /\ contexts[i].completion_reason \in GuardReasons

\* C11: at every guard check of a context that is not complete the iteration
\* count is tested first, then the token total, then the elapsed time: the
\* context ends with the reason of the first exhausted budget in that order,
\* the loop goes on to generate only when none is exhausted, and no
\* generation is served once a guard has fired.
C11_GuardOrder ==
    [][ /\ (pc = "guard" /\ ~Current.is_complete) =>
              LET c == Current
                  u == usages[c.token_usage]
                  after == contexts'[CurrentId]
                  ended(reason) == /\ pc' = "build"
                                   /\ after.is_complete
                                   /\ after.completion_reason = reason
              IN
              IF c.iteration_count >= config.max_iterations THEN ended("max_iterations")
              ELSE IF u.input_tokens + u.output_tokens >= config.max_tokens_budget
              THEN ended("token_budget")
              ELSE IF now' - c.start_time >= config.timeout_seconds THEN ended("timeout")
              ELSE pc' = "generate" /\ after = c
        /\ GuardFired' => transport'.generations = transport.generations ]_vars

\* a guard fired with the iteration, token and time budgets all exhausted
C11_Witness ==
    /\ pc = "build"
    /\ frames # <<>>
    /\ Current.is_complete
    /\ Current.completion_reason = "max_iterations"
    /\ TokenUsage_total(usages[Current.token_usage]) >= config.max_tokens_budget
    /\ elapsed_seconds(Current, now) >= config.timeout_seconds
    /\ transport.generations > 0

\* C12: in every context the terminal flag changes from false to true at most
\* once and is never set back to false.
C12_TerminalFlagNeverCleared ==
    [][ \A i \in 1..Len(contexts) :
            contexts[i].is_complete => contexts'[i].is_complete ]_vars

\* C12 as amended: the flag of a context is set back to false only by an R1
\* recovery after a failing verdict, which in the same step appends the
\* "VERIFICATION FAILED" user message to that context and counts the
\* recovery; no other step clears it.
C12_TerminalFlagClearedOnlyByRetry ==
    [][ \A i \in 1..Len(contexts) :
            (contexts[i].is_complete /\ ~contexts'[i].is_complete) =>
                /\ pc = "verify"
                /\ i = CurrentId
                /\ config.recovery_strategy = "retry_in_context"
                /\ CountEvents("recovery")' = CountEvents("recovery") + 1
                /\ contexts'[i].recovery_count = contexts[i].recovery_count + 1
                /\ Len(contexts'[i].messages) = Len(contexts[i].messages) + 1
                /\ LET m == contexts'[i].messages[Len(contexts'[i].messages)] IN
                   /\ m.role = "user"
                   /\ "VERIFICATION FAILED" \in m.content[1].text ]_vars

\* a context whose flag was cleared by R1 is complete again
C12_Witness ==
    /\ frames # <<>>
    /\ config.recovery_strategy = "retry_in_context"
    /\ Current.recovery_count > 0
    /\ Current.is_complete
    /\ Current.completion_reason = "agent_declared"
    /\ pc = "verify"

\* C13: in every reachable state the roles of consecutive messages of every
\* context alternate user / assistant, whatever the responses (several
\* tool-use blocks, no tool use with a stop reason other than end_turn) and
\* recoveries.
C13_RolesAlternate ==
    \A i \in 1..Len(contexts) :
        \A j \in 1..(Len(contexts[i].messages) - 1) :
            contexts[i].messages[j].role # contexts[i].messages[j + 1].role

\* the blocks of type ty of a message
BlocksOf(message, ty) ==
    { message.content[b] :
        b \in { b2 \in 1..Len(message.content) : message.content[b2].type = ty } }

\* the ids of the tool_use blocks of the assistant messages before position j
ToolUseIdsBefore(messages, j) ==
    UNION { { block.id : block \in BlocksOf(messages[k], "tool_use") } :
            k \in { k2 \in 1..(j - 1) : messages[k2].role = "assistant" } }

\* C14: every tool_result block of every context, also of a context created
\* by an R2/R3 recovery, carries the id of a tool_use block of an assistant
\* message that comes earlier in the same context.
C14_ToolResultAnswersEarlierToolUse ==
    \A i \in 1..Len(contexts) :
        \A j \in 1..Len(contexts[i].messages) :
            \A block \in BlocksOf(contexts[i].messages[j], "tool_result") :
                block.tool_use_id \in ToolUseIdsBefore(contexts[i].messages, j)

\* a context created by a recovery holds a tool result
C14_Witness ==
    \E i \in 2..Len(contexts) :
        \E j \in 1..Len(contexts[i].messages) :
            BlocksOf(contexts[i].messages[j], "tool_result") # {}

\* the last verification of the run passed
LastVerificationPassed ==
    \E i \in 1..Len(events) :
        /\ events[i].event = "verification"
        /\ events[i].passed
        /\ \A j \in (i + 1)..Len(events) : events[j].event # "verification"

\* C15: a result has resolved = true only if the last verification of the run
\* passed and no exception escaped the loop; a run ended by a budget, by
\* recovery exhaustion or by an exception never yields resolved = true.  This
\* holds of run's result and of the one the batch runner records.
C15_ResolvedOnlyOnPassingVerdict ==
    /\ (pc \in {"done", "collected"} /\ result # NoResult /\ result.resolved) =>
            /\ LastVerificationPassed
            /\ result.error = ""
            /\ transport.failures = 0
            /\ result.completion_reason \notin GuardReasons \cup {"max_recovery", "error"}
    /\ (pc = "collected" /\ task_result.resolved) =>
            /\ LastVerificationPassed
            /\ task_result.error = ""

\* the verifier passed, an exception left the loop, and the result is not
\* resolved
C15_Witness ==
    /\ Returned
    /\ LastVerificationPassed
    /\ result.error # ""
    /\ ~result.resolved

\* C16: when the transport raises in a generation call of the scheduler, at
\* any recursion depth, the task ends with a result whose completion_reason
\* is "harness_error", resolved false, error the exception text.
C16_TransportErrorIsHarnessError ==
    (pc \in {"done", "collected"} /\ transport.failures > 0) =>
        LET r == IF pc = "done" THEN result ELSE task_result IN
        /\ r.completion_reason = "harness_error"
        /\ ~r.resolved
        /\ r.error = "transport error"

\* the step is a failing _run_verification that calls the recovery strategy
RecoveryStep(strategy) ==
    /\ pc = "verify"
    /\ config.recovery_strategy = strategy
    /\ CountEvents("recovery")' = CountEvents("recovery") + 1
    /\ error' = ""

\* C19: R1 recover returns the very same context object with exactly one user
\* message appended, whose text contains "VERIFICATION FAILED" and the
\* verifier's message, recovery_count increased by exactly 1 and the terminal
\* flag cleared; the earlier messages, the tool-call list, the usage counters
\* and the iteration and verification counts are as they were when recover
\* was called (the verdict itself was counted just before the call).
C19_RetryInContextFrame ==
    [][ RecoveryStep("retry_in_context") =>
          LET before == Current
              after == contexts'[CurrentId]
              feedback == after.messages[Len(after.messages)]
          IN
          /\ Len(contexts') = Len(contexts)
          /\ frames'[Len(frames')].context = CurrentId
          /\ Len(after.messages) = Len(before.messages) + 1
          /\ SubSeq(after.messages, 1, Len(before.messages)) = before.messages
          /\ feedback.role = "user"
          /\ "VERIFICATION FAILED" \in feedback.content[1].text
          /\ VerifierMessage(config.verification_method, "failed") \in feedback.content[1].text
          /\ after.recovery_count = before.recovery_count + 1
          /\ ~after.is_complete
          /\ after.tool_calls = before.tool_calls
          /\ tool_lists' = tool_lists
          /\ after.token_usage = before.token_usage
          /\ usages' = usages
          /\ after.iteration_count = before.iteration_count
          /\ after.verification_count = before.verification_count + 1
          /\ after.start_time = before.start_time ]_vars

\* the loop goes on in a context R1 has just recovered
C19_Witness ==
    /\ pc = "guard"
    /\ config.recovery_strategy = "retry_in_context"
    /\ Current.recovery_count = 1
    /\ ~Current.is_complete
    /\ LET feedback == Current.messages[Len(Current.messages)] IN
       /\ feedback.role = "user"
       /\ "VERIFICATION FAILED" \in feedback.content[1].text

\* C20: every R3 recover of a run returns a context object different from its
\* input, whose transcript is exactly one user message containing the task
\* description and the failed verifier's message, whose iteration and
\* verification counts, usage and start timestamp equal the input's, and
\* whose recovery_count is the input's plus 1.
C20_FreshRestartContext ==
    [][ RecoveryStep("fresh_restart") =>
          LET id == CurrentId
              input == contexts'[id]
              new_id == frames'[Len(frames')].context
              new == contexts'[new_id]
          IN
          /\ Len(contexts') = Len(contexts) + 1
          /\ new_id = Len(contexts')
          /\ new_id # id
          /\ Len(new.messages) = 1
          /\ new.messages[1].role = "user"
          /\ "task.description" \in new.messages[1].content[1].text
          /\ VerifierMessage(config.verification_method, "failed")
                \in new.messages[1].content[1].text
          /\ new.iteration_count = input.iteration_count
          /\ input.iteration_count = contexts[id].iteration_count
          /\ new.verification_count = input.verification_count
          /\ input.verification_count = contexts[id].verification_count + 1
          /\ new.token_usage = input.token_usage
          /\ usages'[new.token_usage] = usages[contexts[id].token_usage]
          /\ new.start_time = input.start_time
          /\ new.recovery_count = input.recovery_count + 1
          /\ input.recovery_count = contexts[id].recovery_count ]_vars

\* the second fresh restart of a run whose verifier failed every time
C20_Witness ==
    /\ config.recovery_strategy = "fresh_restart"
    /\ AllVerificationsFailed
    /\ Len(contexts) = 3
    /\ frames # <<>>
    /\ CurrentId = 3
    /\ Current.recovery_count = 2
    /\ Current.iteration_count = 2

\* the step is a call of _execute_tool whose tool failed
FailingToolStep ==
    /\ pc = "tools"
    /\ tools'.failures = tools.failures + 1

\* what a failing tool call leaves behind: no exception, the loop still
\* running, an "Error..." tool_result for the tool use's id and an audit entry
FailureBecomesToolResult ==
    LET tool_use == Head(Top.tool_uses)
        after == contexts'[CurrentId]
        answer == after.messages[Len(after.messages)]
        calls == tool_lists'[Current.tool_calls]
    IN
    /\ error' = ""
    /\ frames' # <<>>
    /\ pc' \notin {"build", "except"}
    /\ Len(after.messages) = Len(Current.messages) + 1
    /\ answer.role = "user"
    /\ answer.content[1].type = "tool_result"
    /\ answer.content[1].tool_use_id = tool_use.id
    /\ Head(answer.content[1].content) = "Error"
    /\ Len(calls) = Len(tool_lists[Current.tool_calls]) + 1
    /\ Head(calls[Len(calls)].tool_result) = "Error"

\* C17: a failing tool call never ends the loop: the failure becomes a string
\* beginning with "Error", appended as the tool_result of that tool use and
\* recorded in the audit list, and the loop proceeds to the next tool use of
\* the turn or to the next generation.
C17_ToolFailureThenNextToolOrGeneration ==
    [][ FailingToolStep =>
          /\ FailureBecomesToolResult
          /\ pc' = Continue(Tail(Top.tool_uses)) ]_vars

\* C17 as amended: under per-step granularity the verification that follows
\* every tool dispatch comes first; otherwise the next tool use or generation.
C17_ToolFailureNeverEndsLoop ==
    [][ FailingToolStep =>
          /\ FailureBecomesToolResult
          /\ pc' = IF config.verification_granularity = "per_step"
                   THEN "verify" ELSE Continue(Tail(Top.tool_uses)) ]_vars

\* after a failed tool call the loop is about to generate again
C17_Witness ==
    /\ pc = "generate"
    /\ tools.failures > 0
    /\ LET answer == Current.messages[Len(Current.messages)] IN
       /\ answer.role = "user"
       /\ answer.content[1].type = "tool_result"
       /\ Head(answer.content[1].content) = "Error"

\* the verifier of `method` cannot execute on these inputs
CannotExecute(method, in) ==
    CASE method = "test_execution" ->
            in.test_command = "" \/ in.subprocess \in {"TimeoutExpired", "OSError"}
      [] method = "e2e" ->
            in.e2e_command = "" \/ in.subprocess \in {"TimeoutExpired", "OSError"}
      [] method \in {"self_review", "spec_comparison"} -> in.llm_client = "None"
      [] method = "none" -> FALSE

\* C18: every non-V0 verifier that cannot execute (V2 without a test command,
\* V4 without an e2e command, V1/V3 without a transport, a subprocess that
\* times out or fails to start) returns passed = false with a non-empty
\* message, and _run_verification takes the branch of an ordinary failure on
\* it: recovery, or max_recovery once the attempts are used up, never pass.
C18_CannotExecuteIsFailure ==
    (pc \in {"verdict", "verifier_raised"}
        /\ CannotExecute(config.verification_method, verification.inputs)) =>
        /\ pc = "verdict"
        /\ ~verification.passed
        /\ verification.message # {}
        /\ verification.branch =
              IF verification.recovery_attempts >= config.max_recovery_attempts
              THEN "max_recovery" ELSE "recover"

\* V2 was called for a task without a test command and recovery follows
C18_Witness ==
    /\ pc = "verdict"
    /\ config.verification_method = "test_execution"
    /\ verification.inputs.test_command = ""
    /\ verification.branch = "recover"

\* C21: with a transport, R2 recover makes exactly one transport call and
\* returns a new context that inherits the usage object (grown by that call's
\* input and output tokens only), the tool-call audit list, the iteration
\* count and the verification count of its input, has recovery_count one
\* higher, and holds exactly one user message with the summary text, the
\* verifier's message and the task description.
C21_CompactAndRetryContext ==
    [][ RecoveryStep("compact_and_retry") =>
          LET id == CurrentId
              input == contexts'[id]
              new_id == frames'[Len(frames')].context
              new == contexts'[new_id]
              before == usages[contexts[id].token_usage]
              after == usages'[new.token_usage]
          IN
          /\ transport'.calls = transport.calls + 1
                + (IF UsesTransport(config.verification_method) THEN 1 ELSE 0)
          /\ transport'.generations = transport.generations
          /\ Len(contexts') = Len(contexts) + 1
          /\ new_id = Len(contexts')
          /\ new.token_usage = input.token_usage
          /\ after.input_tokens = before.input_tokens + SummaryResponse.input_tokens
          /\ after.output_tokens = before.output_tokens + SummaryResponse.output_tokens
          /\ after.cache_creation_input_tokens = before.cache_creation_input_tokens
          /\ after.cache_read_input_tokens = before.cache_read_input_tokens
          /\ after.total_cost_usd = before.total_cost_usd
          /\ new.tool_calls = input.tool_calls
          /\ tool_lists'[new.tool_calls] = tool_lists[contexts[id].tool_calls]
          /\ new.iteration_count = input.iteration_count
          /\ new.verification_count = input.verification_count
          /\ new.recovery_count = input.recovery_count + 1
          /\ new.start_time = input.start_time
          /\ Len(new.messages) = 1
          /\ new.messages[1].role = "user"
          /\ text_content(SummaryResponse) \subseteq new.messages[1].content[1].text
          /\ VerifierMessage(config.verification_method, "failed")
                \in new.messages[1].content[1].text
          /\ "task.description" \in new.messages[1].content[1].text ]_vars

\* the loop runs in a context R2 compacted after tools had been called
C21_Witness ==
    /\ config.recovery_strategy = "compact_and_retry"
    /\ frames # <<>>
    /\ CurrentId = 2
    /\ pc = "guard"
    /\ Current.recovery_count = 1
    /\ Len(tool_lists[Current.tool_calls]) > 0
    /\ Len(Current.messages) = 1

\* the step enters _run_verification
VerifierInvoked == pc # "verify" /\ pc' = "verify"

\* the step served a response without tool use whose text holds TASK_COMPLETE
DeclaredComplete ==
    LET after == contexts'[CurrentId]
        said == after.messages[Len(after.messages)]
    IN
    /\ pc = "generate"
    /\ transport'.generations = transport.generations + 1
    /\ said.role = "assistant"
    /\ BlocksOf(said, "tool_use") = {}
    /\ \E block \in BlocksOf(said, "text") : TASK_COMPLETE_MARKER \in block.text
    /\ after.is_complete
    /\ after.completion_reason = "agent_declared"

\* C23: a run with granularity per_feature takes exactly the steps a run with
\* task_end_only takes on the same outcomes: each of its tool steps is the
\* tool step of either granularity (all other steps do not read the
\* granularity), and under both the verifier is invoked only when a response
\* without tool use contains TASK_COMPLETE.
C23_PerFeatureIsTaskEndOnly ==
    [][ config.verification_granularity \in {"task_end_only", "per_feature"} =>
          /\ pc = "tools" =>
                /\ ExecuteToolUnder("task_end_only")
                /\ ExecuteToolUnder("per_feature")
          /\ VerifierInvoked => DeclaredComplete ]_vars

\* a per_feature run executed a tool and later had its verifier invoked
C23_Witness ==
    /\ config.verification_granularity = "per_feature"
    /\ CountEvents("tool_call") > 0
    /\ CountEvents("verification") > 0

\* the step dispatched a tool and appended its tool_result
ToolDispatched == pc = "tools" /\ CountEvents("tool_call")' = CountEvents("tool_call") + 1

\* the step ran the verifier and logged its verdict
VerdictStep(passed) ==
    /\ pc = "verify"
    /\ Len(events') > Len(events)
    /\ events'[Len(events) + 1].event = "verification"
    /\ events'[Len(events) + 1].passed = passed

\* C24: under per_step the verifier runs after every single tool dispatch,
\* before the next tool use of the turn; a failing verdict is followed by the
\* recovery branch (or by recovery exhaustion) before any further tool runs;
\* a passing verdict ends the loop without executing the remaining tool uses,
\* and the run then returns with completion_reason "verified".
C24_PerStepVerdictEndsRun ==
    [][ config.verification_granularity = "per_step" =>
          /\ ToolDispatched => pc' = "verify"
          /\ VerdictStep(FALSE) =>
                \/ CountEvents("recovery")' = CountEvents("recovery") + 1
                \/ contexts'[CurrentId].completion_reason = "max_recovery"
          /\ VerdictStep(TRUE) =>
                /\ contexts'[CurrentId].is_complete
                /\ contexts'[CurrentId].completion_reason = "verified"
                /\ pc' = "build"
          /\ (LastVerificationPassed /\ ~Returned) => ~ToolDispatched
          /\ (LastVerificationPassed /\ ~Returned /\ Returned') =>
                /\ result'.completion_reason = "verified"
                /\ result'.resolved ]_vars

\* C30: the events of a run are appended in the order of its steps: run_start
\* is the first event and there is one; run_end is written once, after every
\* other event, also when the run ends by an exception; the last llm_call
\* before every tool_call is the one of a response with tool use; and every
\* recovery event directly follows a verification event with passed = false.
C30_EventsInStepOrder ==
    /\ events # <<>> => events[1].event = "run_start"
    /\ CountEvents("run_start") = (IF pc \in {"provision", "start"} \/ events = <<>> THEN 0 ELSE 1)
    /\ \A i \in 1..Len(events) : events[i].event = "run_end" => i = Len(events)
    /\ Returned => (events # <<>> /\ events[Len(events)].event = "run_end")
    /\ ~Returned /\ pc # "collected" => CountEvents("run_end") = 0
    /\ \A i \in 1..Len(events) :
          events[i].event = "tool_call" =>
            \E j \in 1..(i - 1) :
                /\ events[j].event = "llm_call"
                /\ events[j].has_tool_use
                /\ \A k \in (j + 1)..(i - 1) : events[k].event # "llm_call"
    /\ \A i \in 1..Len(events) :
          events[i].event = "recovery" =>
            /\ i > 1
            /\ events[i - 1].event = "verification"
            /\ ~events[i - 1].passed

\* a run with tool calls and a recovery was ended by a transport exception
\* and returned
C30_Witness ==
    /\ Returned
    /\ result.error = "transport error"
    /\ CountEvents("tool_call") > 0
    /\ CountEvents("recovery") > 0

\* C22: R2 without a transport client has exactly the effect of R1 on the
\* same input: the same context object is returned, the same feedback user
\* message is appended to it, recovery_count is one higher, the terminal flag
\* is cleared, nothing else of the heap changes and nothing is raised.
C22_NoClientIsRetryInContext ==
    pc = "recovered" =>
        LET input == contexts[1]
            after == call.R2.contexts[call.R2.returned]
        IN
        /\ call.R2 = call.R1
        /\ ~call.R2.raised
        /\ call.R2.returned = 1
        /\ Len(call.R2.contexts) = Len(contexts)
        /\ after.messages =
              Append(input.messages,
                     [role |-> "user",
                      content |-> <<TextBlock({"VERIFICATION FAILED", call.message})>>])
        /\ after.recovery_count = input.recovery_count + 1
        /\ ~after.is_complete
        /\ after = [input EXCEPT !.messages = after.messages,
                                 !.recovery_count = after.recovery_count,
                                 !.is_complete = FALSE]

\* both strategies were called on a context that was complete after a
\* declared completion and had been recovered once before
C22_Witness ==
    /\ pc = "recovered"
    /\ call.function = "recover"
    /\ contexts[1].is_complete
    /\ contexts[1].recovery_count = 1

\* the command, compared case-insensitively, contains a blocklisted pattern
ContainsBlockedPattern(command) ==
    \E k \in 1..Len(BLOCKED_PATTERNS), i \in 1..Len(command) :
        /\ i + Len(BLOCKED_PATTERNS[k]) - 1 <= Len(command)
        /\ \A j \in 1..Len(BLOCKED_PATTERNS[k]) :
              str_lower(command[i + j - 1]) = BLOCKED_PATTERNS[k][j]

\* C25: for every bash call whose command contains, compared
\* case-insensitively, a blocklisted install pattern, no subprocess is
\* started, the tool returns (does not raise) an error string containing
\* "blocked", which the loop takes as the tool result; any other command is
\* handed to a subprocess.
C25_BlockedCommandNeverExecutes ==
    (pc = "tool_returned" /\ call.function = "bash") =>
        IF ContainsBlockedPattern(call.input.command)
        THEN /\ call.returned.subprocess_runs = 0
             /\ ~call.returned.raised
             /\ Head(call.returned.result) = "Error"
             /\ str_contains(call.returned.result, <<"blocked">>)
        ELSE call.returned.subprocess_runs = 1

\* a blocked install was requested in upper case inside a longer command
C25_Witness ==
    /\ pc = "tool_returned"
    /\ call.function = "bash"
    /\ call.input.command = <<"ls", "PIP", "Install", "-e">>
    /\ call.returned.subprocess_runs = 0

\* the positions at which old_string occurs in the content, overlapping
\* occurrences included
Positions(content, old_string) ==
    { i \in 1..(Len(content) + 1) : OccursAt(content, old_string, i) }

\* the content with the occurrence at position i replaced
ReplacedAt(content, i, old_string, new_string) ==
    SubSeq(content, 1, i - 1) \o new_string \o Drop(content, i - 1 + Len(old_string))

\* C26: file_edit returns an error string and leaves the file unchanged
\* whenever old_string does not occur in the file or occurs at more than one
\* position, overlapping occurrences included; when it occurs at exactly one
\* position (and the file can be read and written) the new content is the old
\* one with that occurrence replaced by new_string.
C26_EditOnlyUniqueOccurrence ==
    (pc = "tool_returned" /\ call.function = "file_edit" /\ call.input.file.exists) =>
        LET content == call.input.file.content
            old_string == call.input.old_string
            new_string == call.input.new_string
            positions == Positions(content, old_string)
        IN
        IF Cardinality(positions) # 1
        THEN /\ Head(call.returned.result) \in {"Error", "Error editing file"}
             /\ call.returned.file = call.input.file
        ELSE \/ /\ call.returned.result = <<"Error editing file">>
                /\ call.returned.file = call.input.file
             \/ /\ call.returned.result = <<"Successfully edited">>
                /\ \A i \in positions :
                      call.returned.file.content =
                          ReplacedAt(content, i, old_string, new_string)

\* C28: in each trial all provisioning is sequential and finished before the
\* first scheduler invocation: no provisioning step of a task runs while
\* another task is being provisioned or runs its agent loop.
C28_ProvisioningNeverConcurrent ==
    \A i, j \in Tasks :
        (i # j /\ batch.phase = "running" /\ batch.worker[i].state = "provisioning")
            => batch.worker[j].state \notin {"provisioning", "agent"}

\* C29: the tools of a task work in the task's own workspace directory, the
\* one its verifier runs in (task.workspace_dir); two tasks whose agent loops
\* run at the same time have different tool directories, and a file under a
\* task's workspace or under the root was written by no other task's tools.
C29_ToolsInOwnWorkspace ==
    /\ \A i \in Tasks :
          batch.phase = "running" /\ batch.worker[i].state = "agent" =>
              /\ batch.tools_dir[i] = batch.workspace_dir[i]
              /\ \A j \in Tasks \ {i} :
                    batch.worker[j].state = "agent" =>
                        batch.tools_dir[j] # batch.tools_dir[i]
    /\ batch.phase # "none" =>
          \A d \in Directories : batch.files[d] # 0 => d = Workspace(batch.files[d])

\* what the task's own worker did decides the task's result
OwnResult(i) ==
    LET w == batch.worker[i] IN
    IF w.state = "raised"
    THEN /\ batch.task_results[i].completion_reason = "exception"
         /\ ~batch.task_results[i].resolved
    ELSE /\ batch.task_results[i] = w.value
         /\ w.value.completion_reason \in {"provision_error", "harness_error"}
               => ~w.value.resolved

\* C27: in every trial and under every interleaving of the workers each
\* loaded task has exactly one result, at its own position and with its own
\* task id; a task whose provisioning, harness or worker raised has a
\* non-resolved result of its own (provision_error, harness_error or
\* exception), and every task's result is the one its own worker produced,
\* whatever the other tasks did.
C27_OneResultPerTask ==
    /\ batch.phase = "collected" =>
          /\ Len(batch.task_results) = MaxTasks
          /\ Len(batch.all_results) = batch.trial * MaxTasks
          /\ \A i \in Tasks :
                /\ batch.task_results[i].task_id = task_id(i)
                /\ batch.all_results[(batch.trial - 1) * MaxTasks + i] = batch.task_results[i]
                /\ OwnResult(i)
    /\ batch.phase = "running" =>
          \A i \in Tasks :
              batch.worker[i].state \in {"returned", "raised"} =>
                  /\ batch.worker[i].value.task_id = task_id(i)
                  /\ ~batch.worker[i].value.resolved

\* a trial was collected in which the first task's provisioning raised and
\* another task's worker raised after its agent loop
C27_Witness ==
    /\ batch.phase = "collected"
    /\ batch.trial = num_trials
    /\ batch.task_results[1].completion_reason = "provision_error"
    /\ \E i \in Tasks : batch.task_results[i].completion_reason = "exception"

\* C31: a failed verification made when the run has already recovered
\* max_recovery_attempts times ends the context with "max_recovery" without a
\* call of the recovery strategy and without a recovery event (so with
\* max_recovery_attempts = 0 the first failed verification ends the run), and
\* the nesting of _agent_loop invocations below the first never exceeds
\* max_recovery_attempts.
C31_RecoveryGate ==
    /\ [][ (VerdictStep(FALSE) /\ CountEvents("recovery") >= config.max_recovery_attempts) =>
              /\ CountEvents("recovery")' = CountEvents("recovery")
              /\ transport'.calls = transport.calls
                    + (IF UsesTransport(config.verification_method) THEN 1 ELSE 0)
              /\ contexts'[CurrentId].is_complete
              /\ contexts'[CurrentId].completion_reason = "max_recovery"
              /\ pc' = "build" ]_vars
    /\ [](Len(frames) <= config.max_recovery_attempts + 1)

\* C38: for every recovery strategy the recovery_count of every context and
\* of the returned result never exceeds max_recovery_attempts, and the
\* recovery strategy is invoked at most max_recovery_attempts times in a run.
C38_RecoveriesBounded ==
    /\ \A i \in 1..Len(contexts) : contexts[i].recovery_count <= config.max_recovery_attempts
    /\ CountEvents("recovery") <= config.max_recovery_attempts
    /\ Returned => result.recovery_count <= config.max_recovery_attempts

\* the usage object of the run: the one run()'s context was created with,
\* which every R2/R3 context shares
RunUsage == usages[1]

\* C32: the usage of every model call made outside the generation step (the
\* V1/V3 review call, R2's summary call) is added to the run's cumulative
\* usage exactly once: the cumulative input tokens, output tokens and cost
\* are those of the scheduler's generations plus those of these calls, and
\* the returned result reports these token totals.
C32_SideCallsCountedOnce ==
    usages # <<>> =>
        /\ RunUsage.input_tokens = transport.input_tokens + transport.side_input_tokens
        /\ RunUsage.output_tokens = transport.output_tokens + transport.side_output_tokens
        /\ RunUsage.total_cost_usd = transport.cost_usd + transport.side_cost_usd
        /\ Returned =>
              /\ result.input_tokens = transport.input_tokens + transport.side_input_tokens
              /\ result.output_tokens = transport.output_tokens + transport.side_output_tokens

\* every response the scheduler got requested a tool
EveryTurnRequestsTool ==
    \A i \in 1..Len(events) : events[i].event = "llm_call" => events[i].has_tool_use

\* C37: the scheduler issues at most max_iterations generations in a run,
\* over all recovery attempts; and when every call returns and the transport
\* requests a tool on every turn (task-end verification, neither the token
\* nor the time budget firing), the run returns with completion_reason "max_iterations"
\* after exactly max_iterations generations, resolved false.
C37_AtMostMaxIterationsGenerations ==
    /\ transport.generations <= config.max_iterations
    /\ ( /\ Returned
         /\ transport.failures = 0
         /\ tools.failures = 0
         /\ EveryTurnRequestsTool
         /\ config.verification_granularity # "per_step"
         /\ RunContext.completion_reason \notin {"token_budget", "timeout"} )
       => /\ result.completion_reason = "max_iterations"
          /\ transport.generations = config.max_iterations
          /\ result.iterations = config.max_iterations
          /\ ~result.resolved

\* C39: whenever the scheduler is about to call the transport, the transcript
\* it passes is not empty and its last message has role user, also after a
\* response with no tool use, no TASK_COMPLETE and a stop reason other than
\* end_turn.
C39_GenerateOnUserTurn ==
    pc = "generate" =>
        /\ Current.messages # <<>>
        /\ Current.messages[Len(Current.messages)].role = "user"

\* C40: no run ends with completion_reason "agent_declared": a context is
\* marked agent_declared only in a step that goes on to the verifier, no
\* result is ever built (by _build_result, by run's except clause or by the
\* batch runner) with that reason, and the context whose result is being
\* built carries verified, max_recovery or a guard's reason instead.
C40_NeverEndsAgentDeclared ==
    /\ [][ \A i \in 1..Len(contexts) :
              ( /\ contexts'[i].completion_reason = "agent_declared"
                /\ contexts[i].completion_reason # "agent_declared"
                /\ contexts'[i].is_complete ) => pc' = "verify" ]_vars
    /\ [](pc = "build" =>
            BuildResultKwargs(Current, usages[Current.token_usage],
                              tool_lists[Current.tool_calls], now).completion_reason
                \in {"verified", "max_recovery"} \cup GuardReasons)
    /\ [](result.completion_reason # "agent_declared")
    /\ [](task_result.completion_reason # "agent_declared")

\* a result is being built for a run that declared completion, failed
\* verification, was recovered in place and verified on a later turn
C40_Witness ==
    /\ pc = "build"
    /\ config.recovery_strategy = "retry_in_context"
    /\ Current.recovery_count > 0
    /\ Current.completion_reason = "verified"

\* the caller's message list and tool schemas, as the caller sees them
CallerMessages == Resolve(call.heap, call.messages)
CallerSchemas == Resolve(call.heap, call.tools)

\* the message carries a cache-control marker
Marked(message) ==
    \E b \in 1..Len(message.content.blocks) : message.content.blocks[b].cache_control

\* C33: a call of the native transport's generate leaves the caller's message
\* list, every message in it and every tool schema as they were, whatever the
\* length of the transcript and however often generate is called, so no
\* cache-control marker is ever in the caller's messages or schemas.
C33_GenerateLeavesCallerUntouched ==
    /\ [][ call.client = "anthropic" =>
             /\ call'.messages = call.messages
             /\ call'.tools = call.tools
             /\ Resolve(call'.heap, call'.messages) = CallerMessages
             /\ Resolve(call'.heap, call'.tools) = CallerSchemas ]_vars
    /\ [](call.client = "anthropic" =>
             /\ \A i \in 1..Len(CallerMessages) : ~Marked(CallerMessages[i])
             /\ \A i \in 1..Len(CallerSchemas) : ~CallerSchemas[i].cache_control)

C33_Witness ==
    /\ pc = "generated"
    /\ call.client = "anthropic"
    /\ Len(call.messages) >= 4
    /\ \E i \in 1..Len(call.request.messages) : Marked(call.request.messages[i])
    /\ Len(call.request.tools) = 2
    /\ call.request.tools[2].cache_control

\* the positions of the user-role messages of a transcript
UserPositions(messages) == { i \in 1..Len(messages) : messages[i].role = "user" }

\* the position of the second-to-last user-role message
SecondToLastUser(messages) ==
    CHOOSE i \in UserPositions(messages) :
        Cardinality({ j \in UserPositions(messages) : j > i }) = 1

\* C34: for a transcript with at least two user-role messages, the message
\* list the native transport sends has a cache-control marker on the
\* second-to-last user-role message and on no other message.
C34_MarkerOnSecondToLastUser ==
    ( /\ pc = "generated"
      /\ call.client = "anthropic"
      /\ Cardinality(UserPositions(CallerMessages)) >= 2 )
    => /\ Len(call.request.messages) = Len(CallerMessages)
       /\ \A i \in 1..Len(call.request.messages) :
            Marked(call.request.messages[i]) <=> i = SecondToLastUser(CallerMessages)

\* C35: the stop_reason of the response either transport returns is one of
\* end_turn, tool_use and max_tokens, whatever the provider reported.
C35_StopReasonInClosedSet ==
    pc = "generated" => call.returned.stop_reason \in {"end_turn", "tool_use", "max_tokens"}

\* the path looks like a test: its basename starts with test_ or ends with
\* _test.py, or is conftest.py, or one of its segments is tests, test or testing
LooksLikeTest(filepath) ==
    LET segments == str_split(filepath, "/")
        basename == segments[Len(segments)]
    IN  \/ str_startswith(basename, <<"t", "e", "s", "t", "_">>)
        \/ str_endswith(basename, <<"_", "t", "e", "s", "t", ".", "p", "y">>)
        \/ \E i \in 1..Len(segments) :
              segments[i] \in { <<"t", "e", "s", "t", "s">>, <<"t", "e", "s", "t">>,
                                <<"t", "e", "s", "t", "i", "n", "g">> }
        \/ basename = <<"c", "o", "n", "f", "t", "e", "s", "t", ".", "p", "y">>

\* C36: the patch filter drops a per-file section exactly when its path looks
\* like a test and keeps every other section as it is, in the original order.
C36_FilterDropsExactlyTestSections ==
    pc = "filtered" =>
        call.returned = SelectSeq(call.diff,
                            LAMBDA fd : fd.header /\ ~LooksLikeTest(fd.filepath))

====
